---------------------------- MODULE Spec2Model ----------------------------
(* Model of the FMU SDK 3.0 engine: fmu30/include/fmu3Template.{h,c}        *)
(* together with the plug-in models Values and LinearTransform.             *)
(*                                                                          *)
(* Reals (fmi3Real) are fixed-point integers: One units make 1.0, sums are  *)
(* exact and a quotient or product is rounded to the nearest unit, as a     *)
(* double rounds to the nearest representable value.  Booleans are the C    *)
(* integers 0 and 1, text pointers are 0 (NULL) or a small handle.          *)
EXTENDS Integers, Sequences, FiniteSets, TLC

VARIABLES
    model,  \* the plug-in compiled in with the template (MODEL_IDENTIFIER)
    live,   \* the host holds a component (c != NULL)
    comp,   \* the ModelInstance record behind the host's handle
    call,   \* the last call made by the host: operation, arguments, results
    peer    \* the second component of the host, while the host works on the first

vars == <<model, live, comp, call, peer>>

-----------------------------------------------------------------------------
(* Bounds of the model *)

\* fixed-point units that make 1.0
One == 20
\* longest value-reference list of one get or set call
MaxNvr == 2

\* the longest list of categories the host passes to fmi3SetDebugLogging
MaxCategories == 2

\* the largest low word of a count of states or event indicators
MaxCount == 3

Models == {"Values", "LinearTransform"}

-----------------------------------------------------------------------------
(* fmi3Status, fmi3Type, fmi3Boolean *)

fmi3OK == "fmi3OK"
fmi3Discard == "fmi3Discard"
fmi3Error == "fmi3Error"
fmi3Warning == "fmi3Warning"
fmi3Fatal == "fmi3Fatal"

fmi3ModelExchange == "fmi3ModelExchange"
fmi3CoSimulation == "fmi3CoSimulation"

fmi3True == 1
fmi3False == 0

-----------------------------------------------------------------------------
(* fmu3Template.h: ModelState and the masks of allowed states *)

ModelState ==
    {"modelStartAndEnd", "modelInstantiated", "modelInitializationMode",
     "modelEventMode", "modelContinuousTimeMode",
     "modelStepComplete", "modelStepInProgress", "modelStepFailed", "modelStepCanceled",
     "modelTerminated", "modelError", "modelFatal"}

MASK_fmi3SetDebugLogging ==
    {"modelInstantiated", "modelInitializationMode",
     "modelEventMode", "modelContinuousTimeMode",
     "modelStepComplete", "modelStepInProgress", "modelStepFailed", "modelStepCanceled",
     "modelTerminated", "modelError"}

MASK_fmi3Instantiate == {"modelStartAndEnd"}

MASK_fmi3FreeInstance ==
    {"modelInstantiated", "modelInitializationMode",
     "modelEventMode", "modelContinuousTimeMode",
     "modelStepComplete", "modelStepFailed", "modelStepCanceled",
     "modelTerminated", "modelError"}

MASK_fmi3SetupExperiment == {"modelInstantiated"}

MASK_fmi3EnterInitializationMode == {"modelInstantiated"}

MASK_fmi3ExitInitializationMode == {"modelInitializationMode"}

\* MASK_fmi3Terminate with modelError among the states
MASK_fmi3Terminate_withError ==
    {"modelEventMode", "modelContinuousTimeMode", "modelStepComplete", "modelStepFailed",
     "modelError"}

MASK_fmi3Terminate ==
    {"modelEventMode", "modelContinuousTimeMode", "modelStepComplete", "modelStepFailed"}

MASK_fmi3Reset == MASK_fmi3FreeInstance

MASK_fmi3GetReal ==
    {"modelInitializationMode",
     "modelEventMode", "modelContinuousTimeMode",
     "modelStepComplete", "modelStepFailed", "modelStepCanceled",
     "modelTerminated", "modelError"}

MASK_fmi3GetInteger == MASK_fmi3GetReal

MASK_fmi3GetBoolean == MASK_fmi3GetReal

MASK_fmi3GetString == MASK_fmi3GetReal

MASK_fmi3SetReal ==
    {"modelInstantiated", "modelInitializationMode",
     "modelEventMode", "modelContinuousTimeMode",
     "modelStepComplete"}

MASK_fmi3SetInteger ==
    {"modelInstantiated", "modelInitializationMode",
     "modelEventMode",
     "modelStepComplete"}

MASK_fmi3SetBoolean == MASK_fmi3SetInteger

MASK_fmi3SetString == MASK_fmi3SetInteger

MASK_fmi3GetFMUstate == MASK_fmi3FreeInstance

MASK_fmi3SetFMUstate == MASK_fmi3FreeInstance

MASK_fmi3FreeFMUstate == MASK_fmi3FreeInstance

MASK_fmi3SerializedFMUstateSize == MASK_fmi3FreeInstance

MASK_fmi3SerializeFMUstate == MASK_fmi3FreeInstance

MASK_fmi3DeSerializeFMUstate == MASK_fmi3FreeInstance

MASK_fmi3GetDirectionalDerivative ==
    {"modelInitializationMode",
     "modelEventMode", "modelContinuousTimeMode",
     "modelStepComplete", "modelStepFailed", "modelStepCanceled",
     "modelTerminated", "modelError"}

MASK_fmi3EnterEventMode == {"modelEventMode", "modelContinuousTimeMode"}

MASK_fmi3NewDiscreteStates == {"modelEventMode"}

MASK_fmi3EnterContinuousTimeMode == {"modelEventMode"}

MASK_fmi3CompletedIntegratorStep == {"modelContinuousTimeMode"}

\* MASK_fmi3SetTime with modelError among the states
MASK_fmi3SetTime_withError == {"modelEventMode", "modelContinuousTimeMode", "modelError"}

MASK_fmi3SetTime == {"modelEventMode", "modelContinuousTimeMode"}

MASK_fmi3SetContinuousStates == {"modelContinuousTimeMode"}

MASK_fmi3GetEventIndicators ==
    {"modelInitializationMode",
     "modelEventMode", "modelContinuousTimeMode",
     "modelTerminated", "modelError"}

MASK_fmi3GetContinuousStates == MASK_fmi3GetEventIndicators

MASK_fmi3GetDerivatives ==
    {"modelEventMode", "modelContinuousTimeMode",
     "modelTerminated", "modelError"}

MASK_fmi3GetNominalsOfContinuousStates ==
    {"modelInstantiated",
     "modelEventMode", "modelContinuousTimeMode",
     "modelTerminated", "modelError"}

MASK_fmi3SetRealInputDerivatives ==
    {"modelInstantiated", "modelInitializationMode", "modelStepComplete"}

MASK_fmi3GetRealOutputDerivatives ==
    {"modelStepComplete", "modelStepFailed", "modelStepCanceled",
     "modelTerminated", "modelError"}

MASK_fmi3DoStep == {"modelStepComplete"}

MASK_fmi3CancelStep == {"modelStepInProgress"}

MASK_fmi3GetStatus ==
    {"modelStepComplete", "modelStepInProgress", "modelStepFailed", "modelTerminated"}

MASK_fmi3GetRealStatus == MASK_fmi3GetStatus

MASK_fmi3GetIntegerStatus == MASK_fmi3GetStatus

MASK_fmi3GetBooleanStatus == MASK_fmi3GetStatus

MASK_fmi3GetStringStatus == MASK_fmi3GetStatus

LOG_ALL == 0
LOG_ERROR == 1
LOG_FMI_CALL == 2
LOG_EVENT == 3

NUMBER_OF_CATEGORIES == 4

logCategoriesNames == <<"logAll", "logError", "logFmiCall", "logEvent">>

\* time - nextEventTime > -DT_EVENT_DETECT: the tolerance of the time-event
\* check, one unit of the fixed-point grid
DT_EVENT_DETECT == 1

\* const int n = 10 of fmi3DoStep: Euler steps of one do-step
n == 10

-----------------------------------------------------------------------------
(* Fixed-point arithmetic of fmi3Real *)

\* a / b (b > 0) rounded to the nearest unit, halves upwards
RoundDiv(a, b) == (2 * a + b) \div (2 * b)

\* the reals of BouncingBall.c have their own, finer resolution: Fine units
\* make 1.0 (time keeps the resolution One)
Fine == 1000

\* the product of two reals
Mul(a, b) == RoundDiv(a * b, One)

-----------------------------------------------------------------------------
(* The plug-in's configuration: Values.c, LinearTransform.c, BouncingBall.c *)

N_VARIABLES(m) == IF m = "Values" THEN 8 ELSE IF m = "BouncingBall" THEN 6 ELSE 7

NUMBER_OF_STATES(m) == IF m = "Values" THEN 1 ELSE IF m = "BouncingBall" THEN 2 ELSE 0

NUMBER_OF_EVENT_INDICATORS(m) == IF m = "BouncingBall" THEN 1 ELSE 0

\* s_variableTypes[vr] is s_variableTypes(m)[vr + 1]
s_variableTypes(m) ==
    IF m = "Values" THEN <<"r", "r", "i", "i", "b", "b", "s", "s">>
    ELSE IF m = "BouncingBall" THEN <<"r", "r", "r", "r", "r", "r">>
    ELSE <<"r", "r", "r", "i", "i", "b", "b">>

\* s_variableSizes[vr] is s_variableSizes(m)[vr + 1]
s_variableSizes(m) ==
    IF m = "Values" THEN <<1, 1, 1, 1, 1, 1, 1, 1>>
    ELSE IF m = "BouncingBall" THEN <<1, 1, 1, 1, 1, 1>>
    ELSE <<3, 9, 3, 2, 2, 2, 2>>

\* STATES: vrStates[i] is vrStates(m)[i + 1]
vrStates(m) ==
    IF m = "Values" THEN <<0>> ELSE IF m = "BouncingBall" THEN <<0, 2>> ELSE <<>>

\* value references of Values.c
x_ == 0
der_x_ == 1
int_in_ == 2
int_out_ == 3
bool_in_ == 4
bool_out_ == 5
string_in_ == 6
string_out_ == 7

\* value references of LinearTransform.c
u_ == 0
T_ == 1
y_ == 2
i_in_ == 3
i_out_ == 4
b_in_ == 5
b_out_ == 6

\* value references of BouncingBall.c
h_ == 0
der_h_ == 1
v_ == 2
der_v_ == 3
g_ == 4
e_ == 5

\* const char *month[]: twelve entries
NumMonths == 12

\* texts are pointers: 0 is NULL, month(k) is month[k], QTronic is the
\* literal "QTronic"
month(k) == k + 1

QTronic == 13

-----------------------------------------------------------------------------
(* ModelInstance *)

\* the block allocateMemory (calloc) returns for value reference vr: zeroes
ZeroSlot(m, vr) == [j \in 1..s_variableSizes(m)[vr + 1] |-> 0]

NoEventInfo ==
    [newDiscreteStatesNeeded |-> fmi3False,
     terminateSimulation |-> fmi3False,
     nominalsOfContinuousStatesChanged |-> fmi3False,
     valuesOfContinuousStatesChanged |-> fmi3False,
     nextEventTimeDefined |-> fmi3False,
     nextEventTime |-> 0]

\* the file-scope variables of BouncingBall.c, which every instance of the
\* plug-in works on: prevV, var_int, var_real[3] (zero when the library is
\* loaded); a call reads and writes them through the field statics
NoStatics == [prevV |-> 0, var_int |-> 0, var_real |-> <<0, 0, 0>>]

\* the record behind a NULL handle: no instance
NoInstance(m) ==
    [state |-> "modelStartAndEnd",
     time |-> 0,
     type |-> fmi3ModelExchange,
     variables |-> [vr \in 0..(N_VARIABLES(m) - 1) |-> ZeroSlot(m, vr)],
     isPositive |-> [z \in 1..NUMBER_OF_EVENT_INDICATORS(m) |-> fmi3False],
     eventInfo |-> NoEventInfo,
     isDirtyValues |-> fmi3False,
     isNewEventIteration |-> fmi3False,
     loggingOn |-> fmi3False,
     logCategories |-> [j \in 1..NUMBER_OF_CATEGORIES |-> fmi3False],
     statics |-> NoStatics]

\* no second component; seen holds the file-scope variables as the last call
\* on the component the host works on left them
NoPeer(m) == [live |-> FALSE, comp |-> NoInstance(m), seen |-> NoStatics]

\* what a call hands back: the instance after it, the status, the values
\* written to the caller's buffers, whether an access left its block
\* (undefined behaviour), the sub-steps a do-step performed (the stores of
\* a set call, the reads of a get call), how often calculateValues ran, and
\* the messages passed to the logger of the host (those of invalidState and
\* of the creation, lifecycle and logging functions)
Res(cmp, status) ==
    [comp |-> cmp, status |-> status, out |-> <<>>, oob |-> FALSE, steps |-> <<>>,
     hooks |-> 0, log |-> <<>>]

-----------------------------------------------------------------------------
(* fmu3Template.c: private helpers that validate function arguments *)

isCategoryLogged(cmp, categoryIndex) ==
    /\ categoryIndex < NUMBER_OF_CATEGORIES
    /\ (cmp.logCategories[categoryIndex + 1] = fmi3True \/ cmp.logCategories[1] = fmi3True)

\* a message as the logger of the host receives it: the severity, the name
\* of the category, what it says, and whether the category was logged
\* (isCategoryLogged) when it was sent
Message(cmp, status, categoryIndex, text) ==
    [status |-> status, category |-> logCategoriesNames[categoryIndex + 1],
     text |-> text, enabled |-> isCategoryLogged(cmp, categoryIndex)]

\* the macro FILTERED_LOG passing every message on
FILTERED_LOG_unfiltered(cmp, status, categoryIndex, text) ==
    <<Message(cmp, status, categoryIndex, text)>>

\* the macro FILTERED_LOG: the messages that reach the logger (one or none)
FILTERED_LOG(cmp, status, categoryIndex, text) ==
    IF status = fmi3Error \/ status = fmi3Fatal \/ isCategoryLogged(cmp, categoryIndex)
    THEN <<Message(cmp, status, categoryIndex, text)>>
    ELSE <<>>

\* [bad |-> the C function's result, comp |-> the instance after it]
\* a count of type size_t, 64 bits wide: wraps * 2^32 + low with low < 2^31
size_t(wraps, low) == [wraps |-> wraps, low |-> low]

\* the count as the parameter int n of invalidNumber receives it: the low
\* 32 bits
ToInt(nx) == nx.low

\* the count is the number len of entries of the array
IsCount(nx, len) == nx.wraps = 0 /\ nx.low = len

\* for (i = 0; i < nx; i++) with int i runs beyond an array of len entries
LoopLeaves(nx, len) == nx.wraps > 0 \/ nx.low > len

\* the entries of the array such a loop visits
InArray(nx, len) == IF LoopLeaves(nx, len) THEN len ELSE nx.low

invalidNumber(cmp, num, nExpected) ==
    IF num # nExpected
    THEN [bad |-> TRUE, comp |-> [cmp EXCEPT !.state = "modelError"]]
    ELSE [bad |-> FALSE, comp |-> cmp]

\* invalidState without comp->state = modelError
invalidState_keepsState(lv, cmp, statesExpected) ==
    [bad |-> ~lv \/ cmp.state \notin statesExpected, comp |-> cmp,
     log |-> IF lv /\ cmp.state \notin statesExpected
             THEN FILTERED_LOG(cmp, fmi3Error, LOG_ERROR, "Illegal call sequence")
             ELSE <<>>]

\* lv: the handle is not NULL; log: the message sent
invalidState(lv, cmp, statesExpected) ==
    IF ~lv THEN [bad |-> TRUE, comp |-> cmp, log |-> <<>>]
    ELSE IF cmp.state \notin statesExpected
    THEN [bad |-> TRUE, comp |-> [cmp EXCEPT !.state = "modelError"],
          log |-> FILTERED_LOG(cmp, fmi3Error, LOG_ERROR, "Illegal call sequence")]
    ELSE [bad |-> FALSE, comp |-> cmp, log |-> <<>>]

\* return fmi3Error after invalidState
Failed(chk) == [Res(chk.comp, fmi3Error) EXCEPT !.log = chk.log]

\* the result r with the message FILTERED_LOG(comp, fmi3OK, LOG_FMI_CALL, f)
\* a function sends after its state check
Called(cmp, r, f) ==
    [r EXCEPT !.log = FILTERED_LOG(cmp, fmi3OK, LOG_FMI_CALL, f) \o r.log]

\* isNull: the pointer argument is NULL
nullPointer(cmp, isNull) ==
    IF isNull
    THEN [bad |-> TRUE, comp |-> [cmp EXCEPT !.state = "modelError"]]
    ELSE [bad |-> FALSE, comp |-> cmp]

vrOutOfRange(m, cmp, vr, type) ==
    IF vr >= N_VARIABLES(m)
    THEN [bad |-> TRUE, comp |-> [cmp EXCEPT !.state = "modelError"]]
    ELSE IF s_variableTypes(m)[vr + 1] # type
    THEN [bad |-> TRUE, comp |-> [cmp EXCEPT !.state = "modelError"]]
    ELSE [bad |-> FALSE, comp |-> cmp]

-----------------------------------------------------------------------------
(* Memory: the blocks of the variables and the caller's buffers.            *)
(* An access outside a block is undefined behaviour; its outcomes are       *)
(* drawn from UBOutcomes: the blocks lie one after the other in value-      *)
(* reference order and the access lands in a following block ("adjacent"),  *)
(* or it lands outside every variable ("lost") and a read yields ub.val.    *)

UBOutcomes == [size : {0, 1}, val : {0, 7}, layout : {"lost", "adjacent"}]

NoUB == [size |-> 0, val |-> 0, layout |-> "lost"]

RECURSIVE Base(_, _)
\* the position of block vr when the blocks lie one after the other
Base(m, vr) == IF vr = 0 THEN 0 ELSE Base(m, vr - 1) + s_variableSizes(m)[vr]

\* the block that holds position a of that layout, or N_VARIABLES(m)
BlockAt(m, a) ==
    LET hit == {w \in 0..(N_VARIABLES(m) - 1) :
                    Base(m, w) <= a /\ a < Base(m, w) + s_variableSizes(m)[w + 1]}
    IN IF hit = {} THEN N_VARIABLES(m) ELSE CHOOSE w \in hit : TRUE

\* s_variableSizes[i]; beyond the table the read yields ub.size
SizeAt(m, i, ub) == IF i < N_VARIABLES(m) THEN s_variableSizes(m)[i + 1] ELSE ub.size

\* does element j of block vr lie outside the block?
Outside(m, vr, j) == j >= s_variableSizes(m)[vr + 1]

\* X(comp, vr)[j]: read element j of the block of vr
ReadElem(m, cmp, vr, j, ub) ==
    IF ~Outside(m, vr, j) THEN cmp.variables[vr][j + 1]
    ELSE LET a == Base(m, vr) + j
             w == BlockAt(m, a)
         IN IF ub.layout = "adjacent" /\ w < N_VARIABLES(m)
            THEN cmp.variables[w][a - Base(m, w) + 1]
            ELSE ub.val

\* X(comp, vr)[j] = v: write element j of the block of vr
WriteElem(m, cmp, vr, j, v, ub) ==
    IF ~Outside(m, vr, j) THEN [cmp EXCEPT !.variables[vr][j + 1] = v]
    ELSE LET a == Base(m, vr) + j
             w == BlockAt(m, a)
         IN IF ub.layout = "adjacent" /\ w < N_VARIABLES(m)
            THEN [cmp EXCEPT !.variables[w][a - Base(m, w) + 1] = v]
            ELSE cmp

\* value[k] of the caller's buffer; beyond nValues the read yields ub.val
ValueAt(value, k, ub) == IF k < Len(value) THEN value[k + 1] ELSE ub.val

-----------------------------------------------------------------------------
(* fmu3Template.c: the loops of fmi3SetReal .. fmi3SetString.               *)
(* a = [vr: the value-reference list, null: which pointer argument is NULL, *)
(*      value: the caller's buffer, ub: the outcome of undefined behaviour] *)

RECURSIVE WriteElems(_, _, _, _, _, _, _, _)
\* for (j = 0; j < sz; j++) X(comp, vr)[j] = value[k++];  from element j on;
\* acc.steps records every store: the entry i of the batch, the element and
\* the place k of the caller's buffer it was taken from
WriteElems(m, acc, a, i, vr, sz, j, k) ==
    IF j >= sz THEN acc
    ELSE WriteElems(m,
            [acc EXCEPT
                !.comp = WriteElem(m, acc.comp, vr, j, ValueAt(a.value, k, a.ub), a.ub),
                !.steps = Append(acc.steps, [i |-> i, vr |-> vr, j |-> j, k |-> k]),
                !.oob = acc.oob \/ Outside(m, vr, j) \/ k >= Len(a.value)],
            a, i, vr, sz, j + 1, k + 1)

RECURSIVE SetLoop(_, _, _, _, _, _, _)
\* for (i = 0; i < nvr; i++) { if (vrOutOfRange(..)) return fmi3Error; ... }
\* type: the kind the handler checks; writes: the inner loop stores values
SetLoop(m, acc, a, type, writes, i, k) ==
    IF i >= Len(a.vr) THEN acc
    ELSE LET chk == vrOutOfRange(m, acc.comp, a.vr[i + 1], type)
             sz == SizeAt(m, i, a.ub)
             rd == [acc EXCEPT !.oob = acc.oob \/ i >= N_VARIABLES(m)]
         IN IF chk.bad
            THEN [acc EXCEPT !.comp = chk.comp, !.status = fmi3Error]
            ELSE SetLoop(m,
                    IF writes THEN WriteElems(m, rd, a, i, a.vr[i + 1], sz, 0, k) ELSE rd,
                    a, type, writes, i + 1, IF writes THEN k + sz ELSE k)

\* the part the four set handlers share, after the state check
SetBody(m, cmp, a, type, writes) ==
    LET nvr == Len(a.vr)
        p1 == nullPointer(cmp, a.null = "vr")
        p2 == nullPointer(cmp, a.null = "value")
    IN IF nvr > 0 /\ p1.bad THEN Res(p1.comp, fmi3Error)
       ELSE IF nvr > 0 /\ p2.bad THEN Res(p2.comp, fmi3Error)
       ELSE LET r == SetLoop(m, Res(cmp, fmi3OK), a, type, writes, 0, 0)
            IN IF r.status = fmi3Error THEN r
               ELSE IF nvr > 0
               THEN [r EXCEPT !.comp.isDirtyValues = fmi3True]
               ELSE r

SetReal(m, lv, cmp, a) ==
    LET chk == invalidState(lv, cmp, MASK_fmi3SetReal)
    IN IF chk.bad THEN Failed(chk) ELSE SetBody(m, cmp, a, "r", TRUE)

SetInteger(m, lv, cmp, a) ==
    LET chk == invalidState(lv, cmp, MASK_fmi3SetInteger)
    IN IF chk.bad THEN Failed(chk) ELSE SetBody(m, cmp, a, "i", TRUE)

\* the handler checks the kind 'i' and stores through B(comp, vr)
SetBoolean(m, lv, cmp, a) ==
    LET chk == invalidState(lv, cmp, MASK_fmi3SetBoolean)
    IN IF chk.bad THEN Failed(chk) ELSE SetBody(m, cmp, a, "i", TRUE)

\* the body of the inner loop is commented out: nothing is stored
SetString(m, lv, cmp, a) ==
    LET chk == invalidState(lv, cmp, MASK_fmi3SetString)
    IN IF chk.bad THEN Failed(chk) ELSE SetBody(m, cmp, a, "s", FALSE)

\* setString(comp, vr, value, size): the macro copy(vr, value, size); the
\* status fmi3SetString returns is dropped by the callers
setString(m, cmp, vr, value) ==
    SetString(m, TRUE, cmp,
              [vr |-> <<vr>>, null |-> "none", value |-> <<value>>, ub |-> NoUB]).comp

-----------------------------------------------------------------------------
(* The plug-in's hooks: Values.c, LinearTransform.c, BouncingBall.c *)

setStartValues(m, cmp) ==
    IF m = "Values"
    THEN LET c1 == [cmp EXCEPT !.variables[x_][1] = One,
                               !.variables[int_in_][1] = 2,
                               !.variables[int_out_][1] = 0,
                               !.variables[bool_in_][1] = fmi3True,
                               !.variables[bool_out_][1] = fmi3False]
         IN setString(m, setString(m, c1, string_in_, QTronic), string_out_, month(0))
    ELSE IF m = "BouncingBall"
    THEN [cmp EXCEPT !.variables[h_][1] = Fine,
                     !.variables[v_][1] = 0,
                     !.variables[g_][1] = RoundDiv(981 * Fine, 100),
                     !.variables[e_][1] = RoundDiv(7 * Fine, 10)]
    ELSE [cmp EXCEPT
            !.variables[u_] = <<RoundDiv(-One, 10), RoundDiv(-2 * One, 10), RoundDiv(-3 * One, 10)>>,
            !.variables[T_] = <<0, 0, -One, 0, -One, 0, -One, 0, 0>>,
            !.variables[y_] = <<RoundDiv(One, 10), RoundDiv(2 * One, 10), RoundDiv(3 * One, 10)>>,
            !.variables[i_in_] = <<-1, 1>>,
            !.variables[i_out_] = <<-1, 1>>,
            !.variables[b_in_] = <<fmi3False, fmi3True>>,
            !.variables[b_out_] = <<fmi3False, fmi3True>>]

\* calculateValues of Values that schedules the first time event in any state
calculateValues_anyState(m, cmp) ==
    IF m = "Values"
    THEN [cmp EXCEPT !.eventInfo.nextEventTimeDefined = fmi3True,
                     !.eventInfo.nextEventTime = One + cmp.time]
    ELSE IF m = "BouncingBall"
    THEN IF cmp.state = "modelInitializationMode"
         THEN [cmp EXCEPT !.variables[der_v_][1] = -cmp.variables[g_][1],
                          !.isPositive[1] =
                              IF cmp.variables[h_][1] > 0 THEN fmi3True ELSE fmi3False]
         ELSE cmp
    ELSE [cmp EXCEPT !.variables[i_out_][1] = cmp.variables[i_in_][1],
                     !.variables[i_out_][2] = cmp.variables[i_in_][2]]

calculateValues(m, cmp) ==
    IF m = "Values"
    THEN IF cmp.state = "modelInitializationMode"
         THEN [cmp EXCEPT !.eventInfo.nextEventTimeDefined = fmi3True,
                          !.eventInfo.nextEventTime = One + cmp.time]
         ELSE cmp
    ELSE IF m = "BouncingBall"
    THEN IF cmp.state = "modelInitializationMode"
         THEN [cmp EXCEPT !.variables[der_v_][1] = -cmp.variables[g_][1],
                          !.isPositive[1] =
                              IF cmp.variables[h_][1] > 0 THEN fmi3True ELSE fmi3False]
         ELSE cmp
    ELSE [cmp EXCEPT !.variables[i_out_][1] = cmp.variables[i_in_][1],
                     !.variables[i_out_][2] = cmp.variables[i_in_][2]]

\* getReal returns a pointer into the store: [comp |-> the instance after
\* the call, slot |-> the value reference of the block pointed to]
getReal(m, cmp, vr) ==
    IF m = "Values" /\ vr = der_x_
    THEN [comp |-> [cmp EXCEPT !.variables[der_x_][1] = -cmp.variables[x_][1]],
          slot |-> der_x_]
    ELSE IF m = "BouncingBall" /\ vr = der_h_
    THEN [comp |-> cmp, slot |-> v_]
    ELSE [comp |-> cmp, slot |-> vr]

\* r(h_) + (pos(0) ? EPS_INDICATORS : -EPS_INDICATORS) in halves of the
\* smallest real: the offset, which is below the resolution of the reals,
\* is one half, so that the indicator has the sign of h and is never 0
getEventIndicator(m, cmp, z) ==
    IF m = "BouncingBall" /\ z = 0
    THEN 2 * cmp.variables[h_][1] + (IF cmp.isPositive[1] = fmi3True THEN 1 ELSE -1)
    ELSE 0

\* r(v_) < 1e-3
BelowRestSpeed(v) == 1000 * v < Fine

\* eventUpdate of BouncingBall.c reflecting the velocity at full speed
BallEventUpdate_noRestitution(cmp, isNewEventIteration) ==
    LET c1 == IF isNewEventIteration
              THEN [cmp EXCEPT !.statics.prevV = cmp.variables[v_][1]]
              ELSE cmp
        c2 == [c1 EXCEPT !.isPositive[1] =
                             IF c1.variables[h_][1] > 0 THEN fmi3True ELSE fmi3False]
        tempV == -c2.statics.prevV
        c3 == IF c2.variables[v_][1] # tempV
              THEN [c2 EXCEPT !.variables[v_][1] = tempV,
                              !.eventInfo.valuesOfContinuousStatesChanged = fmi3True]
              ELSE c2
        c4 == IF BelowRestSpeed(c3.variables[v_][1])
              THEN [c3 EXCEPT !.variables[v_][1] = 0, !.variables[der_v_][1] = 0]
              ELSE c3
        c5 == IF c2.isPositive[1] = fmi3True THEN c2 ELSE c4
    IN [c5 EXCEPT !.eventInfo.nominalsOfContinuousStatesChanged = fmi3False,
                  !.eventInfo.terminateSimulation = fmi3False,
                  !.eventInfo.nextEventTimeDefined = fmi3False]

\* eventUpdate of BouncingBall.c
BallEventUpdate(cmp, isNewEventIteration) ==
    LET c1 == IF isNewEventIteration
              THEN [cmp EXCEPT !.statics.prevV = cmp.variables[v_][1]]
              ELSE cmp
        c2 == [c1 EXCEPT !.isPositive[1] =
                             IF c1.variables[h_][1] > 0 THEN fmi3True ELSE fmi3False]
        tempV == RoundDiv(-c2.variables[e_][1] * c2.statics.prevV, Fine)
        c3 == IF c2.variables[v_][1] # tempV
              THEN [c2 EXCEPT !.variables[v_][1] = tempV,
                              !.eventInfo.valuesOfContinuousStatesChanged = fmi3True]
              ELSE c2
        c4 == IF BelowRestSpeed(c3.variables[v_][1])
              THEN [c3 EXCEPT !.variables[v_][1] = 0, !.variables[der_v_][1] = 0]
              ELSE c3
        c5 == IF c2.isPositive[1] = fmi3True THEN c2 ELSE c4
    IN [c5 EXCEPT !.eventInfo.nominalsOfContinuousStatesChanged = fmi3False,
                  !.eventInfo.terminateSimulation = fmi3False,
                  !.eventInfo.nextEventTimeDefined = fmi3False]

\* [comp |-> the instance after the hook; eventInfo is &comp->eventInfo]
\* eventUpdate of Values that asks for termination one firing early
eventUpdate_oneMonthShort(m, cmp, isTimeEvent, isNewEventIteration) ==
    IF m = "Values" /\ isTimeEvent
    THEN LET c1 == [cmp EXCEPT
                      !.eventInfo.nextEventTimeDefined = fmi3True,
                      !.eventInfo.nextEventTime = One + cmp.time,
                      !.variables[int_out_][1] = cmp.variables[int_out_][1] + 1,
                      !.variables[bool_out_][1] =
                          IF cmp.variables[bool_out_][1] = 0 THEN 1 ELSE 0]
         IN IF c1.variables[int_out_][1] < NumMonths - 1
            THEN setString(m, c1, string_out_, month(c1.variables[int_out_][1]))
            ELSE [c1 EXCEPT !.eventInfo.terminateSimulation = fmi3True]
    ELSE IF m = "BouncingBall" THEN BallEventUpdate(cmp, isNewEventIteration)
    ELSE cmp

eventUpdate(m, cmp, isTimeEvent, isNewEventIteration) ==
    IF m = "Values" /\ isTimeEvent
    THEN LET c1 == [cmp EXCEPT
                      !.eventInfo.nextEventTimeDefined = fmi3True,
                      !.eventInfo.nextEventTime = One + cmp.time,
                      !.variables[int_out_][1] = cmp.variables[int_out_][1] + 1,
                      !.variables[bool_out_][1] =
                          IF cmp.variables[bool_out_][1] = 0 THEN 1 ELSE 0]
         IN IF c1.variables[int_out_][1] < NumMonths
            THEN setString(m, c1, string_out_, month(c1.variables[int_out_][1]))
            ELSE [c1 EXCEPT !.eventInfo.terminateSimulation = fmi3True]
    ELSE IF m = "BouncingBall" THEN BallEventUpdate(cmp, isNewEventIteration)
    ELSE cmp

-----------------------------------------------------------------------------
(* fmu3Template.c: the loops of fmi3GetReal .. fmi3GetString.               *)
(* a = [vr, null, nValues: the length of the caller's buffer, ub]           *)

RECURSIVE ReadElems(_, _, _, _, _, _, _, _)
\* for (j = 0; j < sz; j++) value[k++] = X(comp, vr)[j];  from element j on
\* kind "r" reads through the hook getReal, kind "s" reads a text pointer
\* out of the block of a boolean (the handler checks the kind 'b')
ReadElems(m, acc, a, kind, i, vr, sz, j) ==
    IF j >= sz THEN acc
    ELSE LET g == IF kind = "r" THEN getReal(m, acc.comp, vr)
                  ELSE [comp |-> acc.comp, slot |-> vr]
         IN ReadElems(m,
               [acc EXCEPT
                   !.comp = g.comp,
                   !.out = Append(acc.out, ReadElem(m, g.comp, g.slot, j, a.ub)),
                   !.steps = Append(acc.steps,
                                    [i |-> i, vr |-> vr, j |-> j, k |-> Len(acc.out)]),
                   !.oob = \/ acc.oob
                           \/ Outside(m, g.slot, j)
                           \/ Len(acc.out) >= a.nValues
                           \/ kind = "s"],
               a, kind, i, vr, sz, j + 1)

RECURSIVE GetLoop(_, _, _, _, _, _)
\* type: the kind the handler checks; kind: the accessor it reads through
GetLoop(m, acc, a, type, kind, i) ==
    IF i >= Len(a.vr) THEN acc
    ELSE LET chk == vrOutOfRange(m, acc.comp, a.vr[i + 1], type)
             sz == SizeAt(m, i, a.ub)
             rd == [acc EXCEPT !.oob = acc.oob \/ i >= N_VARIABLES(m)]
         IN IF chk.bad
            THEN [acc EXCEPT !.comp = chk.comp, !.status = fmi3Error]
            ELSE GetLoop(m, ReadElems(m, rd, a, kind, i, a.vr[i + 1], sz, 0),
                         a, type, kind, i + 1)

\* the get handlers without nvr > 0 in the test of the dirty flag
GetBody_anyLength(m, cmp, a, type, kind) ==
    LET nvr == Len(a.vr)
        p1 == nullPointer(cmp, a.null = "vr")
        p2 == nullPointer(cmp, a.null = "value")
    IN IF nvr > 0 /\ p1.bad THEN Res(p1.comp, fmi3Error)
       ELSE IF nvr > 0 /\ p2.bad THEN Res(p2.comp, fmi3Error)
       ELSE LET recompute == cmp.isDirtyValues = fmi3True
                c1 == IF recompute
                      THEN [calculateValues(m, cmp) EXCEPT !.isDirtyValues = fmi3False]
                      ELSE cmp
            IN GetLoop(m, [Res(c1, fmi3OK) EXCEPT !.hooks = IF recompute THEN 1 ELSE 0],
                       a, type, kind, 0)

\* the part the four get handlers share, after the state check
GetBody(m, cmp, a, type, kind) ==
    LET nvr == Len(a.vr)
        p1 == nullPointer(cmp, a.null = "vr")
        p2 == nullPointer(cmp, a.null = "value")
    IN IF nvr > 0 /\ p1.bad THEN Res(p1.comp, fmi3Error)
       ELSE IF nvr > 0 /\ p2.bad THEN Res(p2.comp, fmi3Error)
       ELSE LET recompute == nvr > 0 /\ cmp.isDirtyValues = fmi3True
                c1 == IF recompute
                      THEN [calculateValues(m, cmp) EXCEPT !.isDirtyValues = fmi3False]
                      ELSE cmp
            IN GetLoop(m, [Res(c1, fmi3OK) EXCEPT !.hooks = IF recompute THEN 1 ELSE 0],
                       a, type, kind, 0)

GetReal(m, lv, cmp, a) ==
    LET chk == invalidState(lv, cmp, MASK_fmi3GetReal)
    IN IF chk.bad THEN Failed(chk) ELSE GetBody(m, cmp, a, "r", "r")

GetInteger(m, lv, cmp, a) ==
    LET chk == invalidState(lv, cmp, MASK_fmi3GetInteger)
    IN IF chk.bad THEN Failed(chk) ELSE GetBody(m, cmp, a, "i", "i")

GetBoolean(m, lv, cmp, a) ==
    LET chk == invalidState(lv, cmp, MASK_fmi3GetBoolean)
    IN IF chk.bad THEN Failed(chk) ELSE GetBody(m, cmp, a, "b", "b")

\* the handler checks the kind 'b' and reads through S(comp, vr)
GetString(m, lv, cmp, a) ==
    LET chk == invalidState(lv, cmp, MASK_fmi3GetString)
    IN IF chk.bad THEN Failed(chk) ELSE GetBody(m, cmp, a, "b", "s")

-----------------------------------------------------------------------------
(* fmu3Template.c: creation, lifecycle, logging *)

\* the blocks fmi3Instantiate obtains from allocateMemory, in the order of
\* the calls: the instance record, one block per variable, the array
\* isPositive, the instance name, the GUID
AllocatedBlocks(m) ==
    <<[block |-> "comp", index |-> 0]>>
        \o [i \in 1..N_VARIABLES(m) |-> [block |-> "variables", index |-> i - 1]]
        \o <<[block |-> "isPositive", index |-> 0],
             [block |-> "instanceName", index |-> 0],
             [block |-> "GUID", index |-> 0]>>

\* allocateMemory returns NULL for block b: a.mem is "ok" (for none), "fail"
\* (for the instance record), "variables" (for the block of variable
\* a.slot), "isPositive", "instanceName" or "GUID"
Fails(a, b) ==
    CASE a.mem = "ok" -> FALSE
      [] a.mem = "fail" -> b.block = "comp"
      [] a.mem = "variables" -> b.block = "variables" /\ b.index = a.slot
      [] OTHER -> b.block = a.mem

\* the calls of allocateMemory: none before the arguments are accepted, none
\* after the one for the instance record failed
Requested(m, a) ==
    IF a.args # "ok" THEN <<>>
    ELSE IF a.mem = "fail" THEN <<[block |-> "comp", index |-> 0]>>
    ELSE AllocatedBlocks(m)

\* the blocks allocateMemory returned
Obtained(m, a) == SelectSeq(Requested(m, a), LAMBDA b : ~Fails(a, b))

\* !comp || !comp->variables || !comp->isPositive || !comp->instanceName
\* || !comp->GUID: comp->variables is the array inside the record, which is
\* never NULL, so the blocks of the variables are not tested
OutOfMemory(a) == a.mem \in {"fail", "isPositive", "instanceName", "GUID"}

\* the variables setStartValues stores into (the texts go through
\* fmi3SetString, which stores nothing)
StartValueVrs(m) ==
    IF m = "Values" THEN {x_, int_in_, int_out_, bool_in_, bool_out_}
    ELSE IF m = "BouncingBall" THEN {h_, v_, g_, e_}
    ELSE {u_, T_, y_, i_in_, i_out_, b_in_, b_out_}

\* a = [args: what is wrong with the arguments ("ok" when nothing is),
\*      mem: the allocation that fails, fmuType, loggingOn].
\* [live |-> an instance is returned, comp,
\*  blocks |-> the blocks the instance holds,
\*  alloc |-> the blocks requested, obtained, held by the returned instance
\*            and left with no owner (fmi3Instantiate never calls freeMemory),
\*  oob |-> setStartValues stored through a NULL block]
Instantiate(m, a) ==
    IF a.args # "ok" \/ OutOfMemory(a)
    THEN [live |-> FALSE, comp |-> NoInstance(m), blocks |-> <<>>,
          log |-> IF a.args = "noLogger" THEN <<>>
                  ELSE <<[status |-> fmi3Error, category |-> "error",
                          text |-> "fmi3Instantiate", enabled |-> FALSE]>>,
          alloc |-> [requested |-> Requested(m, a), obtained |-> Obtained(m, a),
                     held |-> <<>>, leaked |-> Obtained(m, a)],
          oob |-> FALSE]
    ELSE LET c0 == [NoInstance(m) EXCEPT
                       !.logCategories = [j \in 1..NUMBER_OF_CATEGORIES |-> a.loggingOn],
                       !.time = 0,
                       !.type = a.fmuType,
                       !.loggingOn = a.loggingOn,
                       !.state = "modelInstantiated"]
             c1 == setStartValues(m, c0)
         IN [live |-> TRUE,
             comp |-> [c1 EXCEPT !.isDirtyValues = fmi3True,
                                 !.isNewEventIteration = fmi3False,
                                 !.eventInfo = NoEventInfo],
             log |-> FILTERED_LOG(c1, fmi3OK, LOG_FMI_CALL, "fmi3Instantiate"),
             blocks |-> Obtained(m, a),
             alloc |-> [requested |-> Requested(m, a), obtained |-> Obtained(m, a),
                        held |-> Obtained(m, a), leaked |-> <<>>],
             oob |-> a.mem = "variables" /\ a.slot \in StartValueVrs(m)]

SetupExperiment(m, lv, cmp, startTime) ==
    LET chk == invalidState(lv, cmp, MASK_fmi3SetupExperiment)
    IN IF chk.bad THEN Failed(chk)
       ELSE Called(cmp, Res([cmp EXCEPT !.time = startTime], fmi3OK), "fmi3SetupExperiment")

EnterInitializationMode(m, lv, cmp) ==
    LET chk == invalidState(lv, cmp, MASK_fmi3EnterInitializationMode)
    IN IF chk.bad THEN Failed(chk)
       ELSE Called(cmp, Res([cmp EXCEPT !.state = "modelInitializationMode"], fmi3OK),
                   "fmi3EnterInitializationMode")

\* fmi3ExitInitializationMode without the test of comp->type
ExitInitializationMode_noType(m, lv, cmp) ==
    LET chk == invalidState(lv, cmp, MASK_fmi3ExitInitializationMode)
        c1 == IF cmp.isDirtyValues = fmi3True
              THEN [calculateValues(m, cmp) EXCEPT !.isDirtyValues = fmi3False]
              ELSE cmp
    IN IF chk.bad THEN Failed(chk)
       ELSE Called(cmp, Res([c1 EXCEPT !.state = "modelEventMode",
                                       !.isNewEventIteration = fmi3True], fmi3OK),
                   "fmi3ExitInitializationMode")

ExitInitializationMode(m, lv, cmp) ==
    LET chk == invalidState(lv, cmp, MASK_fmi3ExitInitializationMode)
        c1 == IF cmp.isDirtyValues = fmi3True
              THEN [calculateValues(m, cmp) EXCEPT !.isDirtyValues = fmi3False]
              ELSE cmp
        c2 == IF c1.type = fmi3ModelExchange
              THEN [c1 EXCEPT !.state = "modelEventMode", !.isNewEventIteration = fmi3True]
              ELSE [c1 EXCEPT !.state = "modelStepComplete"]
    IN IF chk.bad THEN Failed(chk)
       ELSE Called(cmp, [Res(c2, fmi3OK) EXCEPT
                            !.hooks = IF cmp.isDirtyValues = fmi3True THEN 1 ELSE 0],
                   "fmi3ExitInitializationMode")

Terminate(m, lv, cmp) ==
    LET chk == invalidState(lv, cmp, MASK_fmi3Terminate)
    IN IF chk.bad THEN Failed(chk)
       ELSE Called(cmp, Res([cmp EXCEPT !.state = "modelTerminated"], fmi3OK), "fmi3Terminate")

Reset(m, lv, cmp) ==
    LET chk == invalidState(lv, cmp, MASK_fmi3Reset)
        c1 == setStartValues(m, [cmp EXCEPT !.state = "modelInstantiated"])
    IN IF chk.bad THEN Failed(chk)
       ELSE Called(cmp, Res([c1 EXCEPT !.isDirtyValues = fmi3True], fmi3OK), "fmi3Reset")

\* [live |-> the instance still exists, comp, freed |-> the blocks handed to
\* freeMemory, in the order of the calls]; the function returns nothing.
\* The blocks of the variables are not handed back ("TODO: free variables")
FreeInstance(m, lv, cmp) ==
    LET chk == invalidState(lv, cmp, MASK_fmi3FreeInstance)
    IN IF ~lv THEN [live |-> FALSE, comp |-> cmp, freed |-> <<>>, log |-> <<>>]
       ELSE IF chk.bad
       THEN [live |-> TRUE, comp |-> chk.comp, freed |-> <<>>, log |-> chk.log]
       ELSE [live |-> FALSE, comp |-> [NoInstance(m) EXCEPT !.statics = cmp.statics],
             log |-> FILTERED_LOG(cmp, fmi3OK, LOG_FMI_CALL, "fmi3FreeInstance"),
             freed |-> <<[block |-> "isPositive", index |-> 0],
                         [block |-> "instanceName", index |-> 0],
                         [block |-> "GUID", index |-> 0],
                         [block |-> "comp", index |-> 0]>>]

\* the index j (from 0) of a category name, NUMBER_OF_CATEGORIES when none
CategoryIndex(name) ==
    LET hit == {j \in 0..(NUMBER_OF_CATEGORIES - 1) : logCategoriesNames[j + 1] = name}
    IN IF hit = {} THEN NUMBER_OF_CATEGORIES ELSE CHOOSE j \in hit : TRUE

RECURSIVE SetCategories(_, _, _, _)
\* for (i = 0; i < nCategories; i++) ...; acc.out collects the names warned of;
\* the warning goes to the logger directly, not through FILTERED_LOG
SetCategories(acc, loggingOn, categories, i) ==
    IF i >= Len(categories) THEN acc
    ELSE LET j == CategoryIndex(categories[i + 1])
         IN SetCategories(
              IF j < NUMBER_OF_CATEGORIES
              THEN [acc EXCEPT !.comp.logCategories[j + 1] = loggingOn]
              ELSE [acc EXCEPT
                      !.out = Append(acc.out, categories[i + 1]),
                      !.log = Append(acc.log,
                                     Message(acc.comp, fmi3Warning, LOG_ERROR,
                                             "logging category is not supported by model"))],
              loggingOn, categories, i + 1)

\* fmi3SetDebugLogging enabling every category when none is named
SetDebugLogging_enablesAll(m, lv, cmp, loggingOn, categories) ==
    LET chk == invalidState(lv, cmp, MASK_fmi3SetDebugLogging)
        c1 == [cmp EXCEPT !.loggingOn = loggingOn,
                          !.logCategories = [j \in 1..NUMBER_OF_CATEGORIES |-> fmi3False]]
    IN IF chk.bad THEN Failed(chk)
       ELSE IF Len(categories) = 0
       THEN Called(cmp, Res([c1 EXCEPT !.logCategories =
                              [j \in 1..NUMBER_OF_CATEGORIES |-> fmi3True]], fmi3OK),
                   "fmi3SetDebugLogging")
       ELSE SetCategories(Called(cmp, Res(c1, fmi3OK), "fmi3SetDebugLogging"),
                          loggingOn, categories, 0)

\* fmi3SetDebugLogging without the reset of the categories
SetDebugLogging_noReset(m, lv, cmp, loggingOn, categories) ==
    LET chk == invalidState(lv, cmp, MASK_fmi3SetDebugLogging)
        c1 == [cmp EXCEPT !.loggingOn = loggingOn]
    IN IF chk.bad THEN Failed(chk)
       ELSE IF Len(categories) = 0
       THEN Called(cmp, Res([c1 EXCEPT !.logCategories =
                              [j \in 1..NUMBER_OF_CATEGORIES |-> loggingOn]], fmi3OK),
                   "fmi3SetDebugLogging")
       ELSE SetCategories(Called(cmp, Res(c1, fmi3OK), "fmi3SetDebugLogging"),
                          loggingOn, categories, 0)

SetDebugLogging(m, lv, cmp, loggingOn, categories) ==
    LET chk == invalidState(lv, cmp, MASK_fmi3SetDebugLogging)
        c1 == [cmp EXCEPT !.loggingOn = loggingOn,
                          !.logCategories = [j \in 1..NUMBER_OF_CATEGORIES |-> fmi3False]]
    IN IF chk.bad THEN Failed(chk)
       ELSE IF Len(categories) = 0
       THEN Called(cmp, Res([c1 EXCEPT !.logCategories =
                              [j \in 1..NUMBER_OF_CATEGORIES |-> loggingOn]], fmi3OK),
                   "fmi3SetDebugLogging")
       ELSE SetCategories(Called(cmp, Res(c1, fmi3OK), "fmi3SetDebugLogging"),
                          loggingOn, categories, 0)

-----------------------------------------------------------------------------
(* fmu3Template.c: unsupported functions and co-simulation *)

\* unsupportedFunction reporting the missing feature as an argument error
unsupportedFunction_asArgumentError(lv, cmp, statesExpected) ==
    LET chk == invalidState(lv, cmp, statesExpected)
    IN IF chk.bad THEN Failed(chk)
       ELSE Res([cmp EXCEPT !.state = "modelError"], fmi3Error)

unsupportedFunction(lv, cmp, statesExpected) ==
    LET chk == invalidState(lv, cmp, statesExpected)
    IN IF chk.bad THEN Failed(chk) ELSE Res(cmp, fmi3Error)

\* the optional functions that go through unsupportedFunction, with their masks
Unsupported ==
    [fmi3GetFMUstate |-> MASK_fmi3GetFMUstate,
     fmi3SetFMUstate |-> MASK_fmi3SetFMUstate,
     fmi3FreeFMUstate |-> MASK_fmi3FreeFMUstate,
     fmi3SerializedFMUstateSize |-> MASK_fmi3SerializedFMUstateSize,
     fmi3SerializeFMUstate |-> MASK_fmi3SerializeFMUstate,
     fmi3DeSerializeFMUstate |-> MASK_fmi3DeSerializeFMUstate,
     fmi3GetDirectionalDerivative |-> MASK_fmi3GetDirectionalDerivative]

SetRealInputDerivatives(m, lv, cmp) ==
    LET chk == invalidState(lv, cmp, MASK_fmi3SetRealInputDerivatives)
    IN IF chk.bad THEN Failed(chk) ELSE Res(cmp, fmi3Error)

\* for (i = 0; i < nvr; i++) value[i] = 0;
GetRealOutputDerivatives(m, lv, cmp, nvr) ==
    LET chk == invalidState(lv, cmp, MASK_fmi3GetRealOutputDerivatives)
    IN IF chk.bad THEN Failed(chk)
       ELSE [Res(cmp, fmi3Error) EXCEPT !.out = [i \in 1..nvr |-> 0]]

CancelStep(m, lv, cmp) ==
    LET chk == invalidState(lv, cmp, MASK_fmi3CancelStep)
    IN IF chk.bad THEN Failed(chk) ELSE Res(cmp, fmi3Error)

RECURSIVE EulerStep_lastFirst(_, _, _, _)
\* the Euler loop taken from the last state to the first: a state is
\* advanced with the derivative computed from the states advanced before it
EulerStep_lastFirst(m, cmp, h, i) ==
    IF i >= NUMBER_OF_STATES(m) THEN cmp
    ELSE LET vr == vrStates(m)[NUMBER_OF_STATES(m) - i]
             g == getReal(m, cmp, vr + 1)
             d == g.comp.variables[g.slot][1]
         IN EulerStep_lastFirst(m,
               [g.comp EXCEPT !.variables[vr][1] = g.comp.variables[vr][1] + Mul(h, d)],
               h, i + 1)

RECURSIVE EulerStep(_, _, _, _)
\* for (i = 0; i < NUMBER_OF_STATES; i++)
\*     R(comp, vrStates[i])[0] += h * getReal(comp, vrStates[i] + 1)[0];
EulerStep(m, cmp, h, i) ==
    IF i >= NUMBER_OF_STATES(m) THEN cmp
    ELSE LET vr == vrStates(m)[i + 1]
             g == getReal(m, cmp, vr + 1)
             d == g.comp.variables[g.slot][1]
         IN EulerStep(m,
               [g.comp EXCEPT !.variables[vr][1] = g.comp.variables[vr][1] + Mul(h, d)],
               h, i + 1)

\* the event indicators after a sub-step, as a sequence
EventIndicators(m, cmp) ==
    [z \in 1..NUMBER_OF_EVENT_INDICATORS(m) |-> getEventIndicator(m, cmp, z - 1)]

\* the indicators whose product with the previous value is negative
Crossings(m, ei, prevEventIndicators) ==
    {z \in 1..NUMBER_OF_EVENT_INDICATORS(m) : ei[z] * prevEventIndicators[z] < 0}

\* stateEvent++ for each of them
StateEvents(m, ei, prevEventIndicators) ==
    Cardinality(Crossings(m, ei, prevEventIndicators))

\* the test of fmi3NewDiscreteStates with the strict comparison
TimeEventReached_strict(time, nextEventTimeDefined, nextEventTime) ==
    nextEventTimeDefined = fmi3True /\ nextEventTime < time

\* the test for a time event of fmi3NewDiscreteStates
TimeEventReached(time, nextEventTimeDefined, nextEventTime) ==
    nextEventTimeDefined = fmi3True /\ nextEventTime <= time

\* the test for a time event of fmi3DoStep, with the tolerance tol
TimeEventFlagged(time, nextEventTimeDefined, nextEventTime, tol) ==
    nextEventTimeDefined = fmi3True /\ time - nextEventTime > -tol

TimeEventDetected(cmp) ==
    TimeEventFlagged(cmp.time, cmp.eventInfo.nextEventTimeDefined,
                     cmp.eventInfo.nextEventTime, DT_EVENT_DETECT)

\* the locals stateEvent and timeEvent without timeEvent = 0; stateEvent = 0;
\* after the call of eventUpdate
FlagsLeft_notCleared(steps) ==
    IF Len(steps) = 0 THEN [stateEvent |-> 0, timeEvent |-> FALSE]
    ELSE [stateEvent |-> steps[Len(steps)].stateEvent,
          timeEvent |-> steps[Len(steps)].timeEvent]

\* the locals stateEvent and timeEvent as the last sub-step left them
FlagsLeft(steps) ==
    IF Len(steps) = 0 THEN [stateEvent |-> 0, timeEvent |-> FALSE]
    ELSE [stateEvent |-> steps[Len(steps)].stateEventLeft,
          timeEvent |-> steps[Len(steps)].timeEventLeft]

\* what a sub-step did: the indicators before (prev) and after (ei) the Euler
\* step, the indicators flagged, the locals stateEvent and timeEvent after
\* detection and at the end of the sub-step, the calls of eventUpdate with
\* the argument isTimeEvent, the variables before and after the hook
SubStepRecord(m, k, c1, c2, prevEventIndicators, ei, stateEvent, timeEvent) ==
    [k |-> k, time |-> c2.time,
     prev |-> prevEventIndicators, ei |-> ei,
     flagged |-> Crossings(m, ei, prevEventIndicators),
     timeFlagged |-> TimeEventDetected(c1),
     stateEvent |-> stateEvent, timeEvent |-> timeEvent,
     hook |-> stateEvent > 0 \/ timeEvent,
     hookCalls |-> IF stateEvent > 0 \/ timeEvent THEN 1 ELSE 0,
     isTimeEvent |-> (stateEvent > 0 \/ timeEvent) /\ timeEvent,
     stateEventLeft |-> IF stateEvent > 0 \/ timeEvent THEN 0 ELSE stateEvent,
     timeEventLeft |-> IF stateEvent > 0 \/ timeEvent THEN FALSE ELSE timeEvent,
     before |-> c1.variables, after |-> c2.variables,
     terminateSimulation |-> c2.eventInfo.terminateSimulation]

RECURSIVE SubSteps_noAbort(_, _, _, _, _)
\* the loop of fmi3DoStep without the return on terminateSimulation: the
\* state and the status are set and the loop goes on
SubSteps_noAbort(m, acc, h, prevEventIndicators, k) ==
    IF k >= n THEN acc
    ELSE LET c1 == EulerStep(m, [acc.comp EXCEPT !.time = acc.comp.time + h], h, 0)
             ei == EventIndicators(m, c1)
             stateEvent == FlagsLeft(acc.steps).stateEvent
                               + StateEvents(m, ei, prevEventIndicators)
             timeEvent == FlagsLeft(acc.steps).timeEvent \/ TimeEventDetected(c1)
             c2 == IF stateEvent > 0 \/ timeEvent
                   THEN eventUpdate(m, c1, timeEvent, TRUE)
                   ELSE c1
             step == SubStepRecord(m, k, c1, c2, prevEventIndicators, ei,
                                   stateEvent, timeEvent)
             a1 == [acc EXCEPT !.comp = c2, !.steps = Append(acc.steps, step)]
         IN SubSteps_noAbort(m,
               IF c2.eventInfo.terminateSimulation = fmi3True
               THEN [a1 EXCEPT !.comp.state = "modelStepFailed", !.status = fmi3Discard]
               ELSE a1,
               h, ei, k + 1)

RECURSIVE SubSteps_prevKept(_, _, _, _, _)
\* the loop of fmi3DoStep without prevEventIndicators[i] = ei: the indicators
\* are compared with their values at the start of the call
SubSteps_prevKept(m, acc, h, prevEventIndicators, k) ==
    IF k >= n THEN acc
    ELSE LET c1 == EulerStep(m, [acc.comp EXCEPT !.time = acc.comp.time + h], h, 0)
             ei == EventIndicators(m, c1)
             stateEvent == FlagsLeft(acc.steps).stateEvent
                               + StateEvents(m, ei, prevEventIndicators)
             timeEvent == FlagsLeft(acc.steps).timeEvent \/ TimeEventDetected(c1)
             c2 == IF stateEvent > 0 \/ timeEvent
                   THEN eventUpdate(m, c1, timeEvent, TRUE)
                   ELSE c1
             step == SubStepRecord(m, k, c1, c2, prevEventIndicators, ei,
                                   stateEvent, timeEvent)
             a1 == [acc EXCEPT !.comp = c2, !.steps = Append(acc.steps, step)]
         IN IF c2.eventInfo.terminateSimulation = fmi3True
            THEN [a1 EXCEPT !.comp.state = "modelStepFailed", !.status = fmi3Discard]
            ELSE SubSteps_prevKept(m, a1, h, prevEventIndicators, k + 1)

RECURSIVE SubSteps(_, _, _, _, _)
\* for (k = 0; k < n; k++) { ... }  from sub-step k on; acc.steps records
\* every sub-step performed
SubSteps(m, acc, h, prevEventIndicators, k) ==
    IF k >= n THEN acc
    ELSE LET c1 == EulerStep(m, [acc.comp EXCEPT !.time = acc.comp.time + h], h, 0)
             ei == EventIndicators(m, c1)
             stateEvent == FlagsLeft(acc.steps).stateEvent
                               + StateEvents(m, ei, prevEventIndicators)
             timeEvent == FlagsLeft(acc.steps).timeEvent \/ TimeEventDetected(c1)
             c2 == IF stateEvent > 0 \/ timeEvent
                   THEN eventUpdate(m, c1, timeEvent, TRUE)
                   ELSE c1
             step == SubStepRecord(m, k, c1, c2, prevEventIndicators, ei,
                                   stateEvent, timeEvent)
             a1 == [acc EXCEPT !.comp = c2, !.steps = Append(acc.steps, step)]
         IN IF c2.eventInfo.terminateSimulation = fmi3True
            THEN [a1 EXCEPT !.comp.state = "modelStepFailed", !.status = fmi3Discard]
            ELSE \* the next sub-step starts from the values computed by this one
                 CHOOSE r \in {SubSteps(m, a, h, e, k + 1) : a \in {a1}, e \in {ei}} : TRUE

\* fmi3DoStep with comp->time = currentCommunicationPoint ahead of the test
\* of the step size
DoStep_timeFirst(m, lv, cmp, currentCommunicationPoint, communicationStepSize) ==
    LET h == RoundDiv(communicationStepSize, 10)
        chk == invalidState(lv, cmp, MASK_fmi3DoStep)
        c1 == [cmp EXCEPT !.time = currentCommunicationPoint]
    IN IF chk.bad THEN Failed(chk)
       ELSE IF communicationStepSize <= 0
       THEN Res([c1 EXCEPT !.state = "modelError"], fmi3Error)
       ELSE SubSteps(m, Res(c1, fmi3OK), h, EventIndicators(m, cmp), 0)

\* fmi3DoStep that brings the derived values up to date ahead of the test
\* of the step size
DoStep_refreshFirst(m, lv, cmp, currentCommunicationPoint, communicationStepSize) ==
    LET h == RoundDiv(communicationStepSize, 10)
        chk == invalidState(lv, cmp, MASK_fmi3DoStep)
        c1 == IF cmp.isDirtyValues = fmi3True
              THEN [calculateValues(m, cmp) EXCEPT !.isDirtyValues = fmi3False]
              ELSE cmp
    IN IF chk.bad THEN Failed(chk)
       ELSE IF communicationStepSize <= 0
       THEN Res([c1 EXCEPT !.state = "modelError"], fmi3Error)
       ELSE SubSteps(m, Res([c1 EXCEPT !.time = currentCommunicationPoint], fmi3OK),
                     h, EventIndicators(m, c1), 0)

\* fmi3DoStep of an asynchronous slave: the step is started and left in
\* progress
DoStep_inProgress(m, lv, cmp, currentCommunicationPoint, communicationStepSize) ==
    LET chk == invalidState(lv, cmp, MASK_fmi3DoStep)
    IN IF chk.bad THEN Failed(chk)
       ELSE IF communicationStepSize <= 0
       THEN Res([cmp EXCEPT !.state = "modelError"], fmi3Error)
       ELSE Res([cmp EXCEPT !.time = currentCommunicationPoint,
                            !.state = "modelStepInProgress"], "fmi3Pending")

DoStep(m, lv, cmp, currentCommunicationPoint, communicationStepSize) ==
    LET h == RoundDiv(communicationStepSize, 10)
        chk == invalidState(lv, cmp, MASK_fmi3DoStep)
    IN IF chk.bad THEN Failed(chk)
       ELSE IF communicationStepSize <= 0
       THEN Res([cmp EXCEPT !.state = "modelError"], fmi3Error)
       ELSE SubSteps(m, Res([cmp EXCEPT !.time = currentCommunicationPoint], fmi3OK),
                     h, EventIndicators(m, cmp), 0)

\* fmi3StatusKind
StatusKinds ==
    {"fmi3DoStepStatus", "fmi3PendingStatus", "fmi3LastSuccessfulTime", "fmi3Terminated"}

\* statusKind[3] has three entries: the name of fmi3Terminated is read
\* beyond it when the call is logged
getStatus(lv, cmp, s) ==
    LET chk == invalidState(lv, cmp, MASK_fmi3GetStatus)
    IN IF chk.bad THEN Failed(chk)
       ELSE [Res(cmp, fmi3Discard) EXCEPT
                !.oob = s = "fmi3Terminated" /\ isCategoryLogged(cmp, 2)]

GetStatus(m, lv, cmp, s) == getStatus(lv, cmp, s)

GetRealStatus(m, lv, cmp, s) ==
    LET chk == invalidState(lv, cmp, MASK_fmi3GetRealStatus)
    IN IF s = "fmi3LastSuccessfulTime"
       THEN IF chk.bad THEN Failed(chk)
            ELSE [Res(cmp, fmi3OK) EXCEPT !.out = <<cmp.time>>]
       ELSE getStatus(lv, cmp, s)

GetIntegerStatus(m, lv, cmp, s) == getStatus(lv, cmp, s)

GetBooleanStatus(m, lv, cmp, s) ==
    LET chk == invalidState(lv, cmp, MASK_fmi3GetBooleanStatus)
    IN IF s = "fmi3Terminated"
       THEN IF chk.bad THEN Failed(chk)
            ELSE [Res(cmp, fmi3OK) EXCEPT !.out = <<cmp.eventInfo.terminateSimulation>>]
       ELSE getStatus(lv, cmp, s)

GetStringStatus(m, lv, cmp, s) == getStatus(lv, cmp, s)

-----------------------------------------------------------------------------
(* fmu3Template.c: model exchange *)

EnterEventMode(m, lv, cmp) ==
    LET chk == invalidState(lv, cmp, MASK_fmi3EnterEventMode)
    IN IF chk.bad THEN Failed(chk)
       ELSE Res([cmp EXCEPT !.state = "modelEventMode",
                            !.isNewEventIteration = fmi3True], fmi3OK)

\* fmi3NewDiscreteStates that leaves isNewEventIteration as it is
NewDiscreteStates_flagKept(m, lv, cmp) ==
    LET chk == invalidState(lv, cmp, MASK_fmi3NewDiscreteStates)
        c1 == [cmp EXCEPT !.eventInfo.newDiscreteStatesNeeded = fmi3False,
                          !.eventInfo.terminateSimulation = fmi3False,
                          !.eventInfo.nominalsOfContinuousStatesChanged = fmi3False,
                          !.eventInfo.valuesOfContinuousStatesChanged = fmi3False]
        timeEvent == TimeEventReached(c1.time, c1.eventInfo.nextEventTimeDefined,
                                      c1.eventInfo.nextEventTime)
        c2 == eventUpdate(m, c1, timeEvent, c1.isNewEventIteration = fmi3True)
    IN IF chk.bad THEN Failed(chk)
       ELSE [Res(c2, fmi3OK) EXCEPT
                !.out = <<c2.eventInfo>>,
                !.steps = <<[timeEvent |-> timeEvent,
                             isNewEventIteration |-> c1.isNewEventIteration]>>]

NewDiscreteStates(m, lv, cmp) ==
    LET chk == invalidState(lv, cmp, MASK_fmi3NewDiscreteStates)
        c1 == [cmp EXCEPT !.eventInfo.newDiscreteStatesNeeded = fmi3False,
                          !.eventInfo.terminateSimulation = fmi3False,
                          !.eventInfo.nominalsOfContinuousStatesChanged = fmi3False,
                          !.eventInfo.valuesOfContinuousStatesChanged = fmi3False]
        timeEvent == TimeEventReached(c1.time, c1.eventInfo.nextEventTimeDefined,
                                      c1.eventInfo.nextEventTime)
        c2 == eventUpdate(m, c1, timeEvent, c1.isNewEventIteration = fmi3True)
    IN IF chk.bad THEN Failed(chk)
       ELSE [Res([c2 EXCEPT !.isNewEventIteration = fmi3False], fmi3OK) EXCEPT
                !.out = <<c2.eventInfo>>,
                !.steps = <<[timeEvent |-> timeEvent,
                             isNewEventIteration |-> c1.isNewEventIteration]>>]

EnterContinuousTimeMode(m, lv, cmp) ==
    LET chk == invalidState(lv, cmp, MASK_fmi3EnterContinuousTimeMode)
    IN IF chk.bad THEN Failed(chk)
       ELSE Res([cmp EXCEPT !.state = "modelContinuousTimeMode"], fmi3OK)

\* null: which of the two result pointers is NULL
CompletedIntegratorStep(m, lv, cmp, null) ==
    LET chk == invalidState(lv, cmp, MASK_fmi3CompletedIntegratorStep)
        p1 == nullPointer(cmp, null = "enterEventMode")
        p2 == nullPointer(cmp, null = "terminateSimulation")
    IN IF chk.bad THEN Failed(chk)
       ELSE IF p1.bad THEN Res(p1.comp, fmi3Error)
       ELSE IF p2.bad THEN Res(p2.comp, fmi3Error)
       ELSE [Res(cmp, fmi3OK) EXCEPT !.out = <<fmi3False, fmi3False>>]

SetTime(m, lv, cmp, time) ==
    LET chk == invalidState(lv, cmp, MASK_fmi3SetTime)
    IN IF chk.bad THEN Failed(chk)
       ELSE Res([cmp EXCEPT !.time = time], fmi3OK)

\* the loop that stored x[] is commented out
SetContinuousStates(m, lv, cmp, x, nx, isNull) ==
    LET chk == invalidState(lv, cmp, MASK_fmi3SetContinuousStates)
        num == invalidNumber(cmp, ToInt(nx), NUMBER_OF_STATES(m))
        p == nullPointer(cmp, isNull)
    IN IF chk.bad THEN Failed(chk)
       ELSE IF num.bad THEN Res(num.comp, fmi3Error)
       ELSE IF p.bad THEN Res(p.comp, fmi3Error)
       ELSE Res(cmp, fmi3OK)

RECURSIVE ReadStates(_, _, _, _, _)
\* for (i = 0; i < nx; i++) out[i] = getReal(comp, vrStates[i] + off)[0];
ReadStates(m, acc, nx, off, i) ==
    IF i >= nx THEN acc
    ELSE LET g == getReal(m, acc.comp, vrStates(m)[i + 1] + off)
         IN ReadStates(m,
               [acc EXCEPT !.comp = g.comp,
                           !.out = Append(acc.out, g.comp.variables[g.slot][1])],
               nx, off, i + 1)

GetDerivatives(m, lv, cmp, nx, isNull) ==
    LET chk == invalidState(lv, cmp, MASK_fmi3GetDerivatives)
        num == invalidNumber(cmp, ToInt(nx), NUMBER_OF_STATES(m))
        p == nullPointer(cmp, isNull)
    IN IF chk.bad THEN Failed(chk)
       ELSE IF num.bad THEN Res(num.comp, fmi3Error)
       ELSE IF p.bad THEN Res(p.comp, fmi3Error)
       ELSE [ReadStates(m, Res(cmp, fmi3OK), InArray(nx, NUMBER_OF_STATES(m)), 1, 0)
                EXCEPT !.oob = NUMBER_OF_STATES(m) > 0
                                   /\ LoopLeaves(nx, NUMBER_OF_STATES(m))]

GetEventIndicators(m, lv, cmp, ni) ==
    LET chk == invalidState(lv, cmp, MASK_fmi3GetEventIndicators)
        num == invalidNumber(cmp, ToInt(ni), NUMBER_OF_EVENT_INDICATORS(m))
    IN IF chk.bad THEN Failed(chk)
       ELSE IF num.bad THEN Res(num.comp, fmi3Error)
       ELSE [Res(cmp, fmi3OK) EXCEPT
                !.out = EventIndicators(m, cmp),
                !.oob = NUMBER_OF_EVENT_INDICATORS(m) > 0
                            /\ LoopLeaves(ni, NUMBER_OF_EVENT_INDICATORS(m))]

GetContinuousStates(m, lv, cmp, nx, isNull) ==
    LET chk == invalidState(lv, cmp, MASK_fmi3GetContinuousStates)
        num == invalidNumber(cmp, ToInt(nx), NUMBER_OF_STATES(m))
        p == nullPointer(cmp, isNull)
    IN IF chk.bad THEN Failed(chk)
       ELSE IF num.bad THEN Res(num.comp, fmi3Error)
       ELSE IF p.bad THEN Res(p.comp, fmi3Error)
       ELSE [ReadStates(m, Res(cmp, fmi3OK), InArray(nx, NUMBER_OF_STATES(m)), 0, 0)
                EXCEPT !.oob = NUMBER_OF_STATES(m) > 0
                                   /\ LoopLeaves(nx, NUMBER_OF_STATES(m))]

\* for (i = 0; i < nx; i++) x_nominal[i] = 1;
GetNominalsOfContinuousStates(m, lv, cmp, nx, isNull) ==
    LET chk == invalidState(lv, cmp, MASK_fmi3GetNominalsOfContinuousStates)
        num == invalidNumber(cmp, ToInt(nx), NUMBER_OF_STATES(m))
        p == nullPointer(cmp, isNull)
    IN IF chk.bad THEN Failed(chk)
       ELSE IF num.bad THEN Res(num.comp, fmi3Error)
       ELSE IF p.bad THEN Res(p.comp, fmi3Error)
       ELSE [Res(cmp, fmi3OK) EXCEPT
                !.out = [i \in 1..InArray(nx, NUMBER_OF_STATES(m)) |-> One],
                !.oob = LoopLeaves(nx, NUMBER_OF_STATES(m))]

-----------------------------------------------------------------------------
(* The host: the arguments it passes *)

RECURSIVE SeqsUpTo(_, _)
\* the sequences over S of length at most len
SeqsUpTo(S, len) ==
    IF len = 0 THEN {<<>>}
    ELSE LET shorter == SeqsUpTo(S, len - 1)
         IN shorter \cup {Append(q, e) : q \in {t \in shorter : Len(t) = len - 1}, e \in S}

\* the (vr[], nvr) arguments of a get or set call over the value references
\* V, and calls with a NULL pointer
VrArgs(V, len) ==
    {[vr |-> q, null |-> "none"] : q \in SeqsUpTo(V, len)}
        \cup {[vr |-> <<0>>, null |-> p] : p \in {"vr", "value"}}
        \cup {[vr |-> <<>>, null |-> "vr"]}

\* the same without the NULL pointers
NoNull(V, len) == {[vr |-> q, null |-> "none"] : q \in SeqsUpTo(V, len)}

\* the declared length of vr; an invalid vr takes one place in the buffer
DeclSize(m, vr) == IF vr < N_VARIABLES(m) THEN s_variableSizes(m)[vr + 1] ELSE 1

RECURSIVE Offset(_, _, _)
\* the place in the buffer of entry i (from 0) by the declared lengths
Offset(m, vr, i) == IF i = 0 THEN 0 ELSE Offset(m, vr, i - 1) + DeclSize(m, vr[i])

\* the caller's buffer of a set call: consecutive values from base on
HostValues(m, vr, base) == [k \in 1..Offset(m, vr, Len(vr)) |-> base + k - 1]

\* the caller's buffer of fmi3SetBoolean: fmi3False and fmi3True in turn
HostBooleans(m, vr, base) == [k \in 1..Offset(m, vr, Len(vr)) |-> (base + k - 1) % 2]

InstantiateFailures ==
    [args : {"noLogger", "noAllocator", "noName", "noGUID", "wrongGUID"},
     mem : {"ok"}, fmuType : {fmi3CoSimulation}, loggingOn : {fmi3False}]
        \cup [args : {"ok"}, mem : {"fail"}, fmuType : {fmi3CoSimulation},
              loggingOn : {fmi3False}]

\* the arguments of fmi3Instantiate with the logging flags L
InstantiateArgs(L) ==
    [args : {"ok"}, mem : {"ok"}, fmuType : {fmi3ModelExchange, fmi3CoSimulation},
     loggingOn : L]
        \cup InstantiateFailures

\* the last call: the function, its arguments, the lifecycle state it was
\* made in, and what it handed back
NoCall ==
    [op |-> "none", args |-> <<>>, from |-> "modelStartAndEnd", status |-> fmi3OK,
     out |-> <<>>, oob |-> FALSE, steps |-> <<>>, hooks |-> 0, log |-> <<>>]

-----------------------------------------------------------------------------
(* The calls of the host, one action per function of the interface; the     *)
(* parameters are the sets the host draws the arguments from                *)

\* the call op(args) ended with r
Do(op, args, r) ==
    \E res \in {r} :
        /\ comp' = res.comp
        /\ call' = [op |-> op, args |-> args, from |-> comp.state,
                    status |-> res.status, out |-> res.out, oob |-> res.oob,
                    steps |-> res.steps, hooks |-> res.hooks, log |-> res.log]
        /\ UNCHANGED <<model, live, peer>>

\* a store through a NULL block is undefined: the call returns the instance
\* all the same, or the process faults and no instance is returned, every
\* block obtained left behind
fmi3Instantiate(A) ==
    /\ ~live
    /\ \E a \in A :
         LET r == Instantiate(model, a)
         IN \E returned \in (IF r.oob THEN BOOLEAN ELSE {r.live}) :
               /\ live' = returned
               /\ comp' = [(IF returned THEN r.comp ELSE NoInstance(model))
                              EXCEPT !.statics = comp.statics]
               /\ call' = [NoCall EXCEPT
                              !.op = "fmi3Instantiate", !.args = a,
                              !.from = comp.state,
                              !.status = IF returned THEN fmi3OK ELSE fmi3Error,
                              !.oob = r.oob,
                              !.steps = <<IF returned THEN r.alloc
                                          ELSE [r.alloc EXCEPT
                                                  !.held = <<>>,
                                                  !.leaked = r.alloc.obtained]>>,
                              !.log = r.log]
               /\ UNCHANGED <<model, peer>>

fmi3FreeInstance ==
    LET r == FreeInstance(model, live, comp)
    IN /\ live' = r.live
       /\ comp' = r.comp
       /\ call' = [NoCall EXCEPT !.op = "fmi3FreeInstance", !.from = comp.state,
                                 !.out = r.freed, !.log = r.log]
       /\ UNCHANGED <<model, peer>>

fmi3SetupExperiment(T) ==
    \E startTime \in T :
        Do("fmi3SetupExperiment", [startTime |-> startTime],
           SetupExperiment(model, live, comp, startTime))

fmi3EnterInitializationMode ==
    Do("fmi3EnterInitializationMode", <<>>, EnterInitializationMode(model, live, comp))

fmi3ExitInitializationMode ==
    Do("fmi3ExitInitializationMode", <<>>, ExitInitializationMode(model, live, comp))

fmi3Terminate == Do("fmi3Terminate", <<>>, Terminate(model, live, comp))

fmi3Reset == Do("fmi3Reset", <<>>, Reset(model, live, comp))

fmi3SetDebugLogging(L, C) ==
    \E loggingOn \in L, categories \in C :
        Do("fmi3SetDebugLogging", [loggingOn |-> loggingOn, categories |-> categories],
           SetDebugLogging(model, live, comp, loggingOn, categories))

fmi3GetReal(A) ==
    \E l \in A :
        LET a0 == [vr |-> l.vr, null |-> l.null,
                   nValues |-> Offset(model, l.vr, Len(l.vr)), ub |-> NoUB]
        IN \E ub \in (IF GetReal(model, live, comp, a0).oob THEN UBOutcomes ELSE {NoUB}) :
              Do("fmi3GetReal", [a0 EXCEPT !.ub = ub],
                 GetReal(model, live, comp, [a0 EXCEPT !.ub = ub]))

fmi3GetInteger(A) ==
    \E l \in A :
        LET a0 == [vr |-> l.vr, null |-> l.null,
                   nValues |-> Offset(model, l.vr, Len(l.vr)), ub |-> NoUB]
        IN \E ub \in (IF GetInteger(model, live, comp, a0).oob THEN UBOutcomes ELSE {NoUB}) :
              Do("fmi3GetInteger", [a0 EXCEPT !.ub = ub],
                 GetInteger(model, live, comp, [a0 EXCEPT !.ub = ub]))

fmi3GetBoolean(A) ==
    \E l \in A :
        LET a0 == [vr |-> l.vr, null |-> l.null,
                   nValues |-> Offset(model, l.vr, Len(l.vr)), ub |-> NoUB]
        IN \E ub \in (IF GetBoolean(model, live, comp, a0).oob THEN UBOutcomes ELSE {NoUB}) :
              Do("fmi3GetBoolean", [a0 EXCEPT !.ub = ub],
                 GetBoolean(model, live, comp, [a0 EXCEPT !.ub = ub]))

fmi3GetString(A) ==
    \E l \in A :
        LET a0 == [vr |-> l.vr, null |-> l.null,
                   nValues |-> Offset(model, l.vr, Len(l.vr)), ub |-> NoUB]
        IN \E ub \in (IF GetString(model, live, comp, a0).oob THEN UBOutcomes ELSE {NoUB}) :
              Do("fmi3GetString", [a0 EXCEPT !.ub = ub],
                 GetString(model, live, comp, [a0 EXCEPT !.ub = ub]))

fmi3SetReal(A, B) ==
    \E l \in A, base \in B :
        LET a0 == [vr |-> l.vr, null |-> l.null,
                   value |-> HostValues(model, l.vr, base), ub |-> NoUB]
        IN \E ub \in (IF SetReal(model, live, comp, a0).oob THEN UBOutcomes ELSE {NoUB}) :
              Do("fmi3SetReal", [a0 EXCEPT !.ub = ub],
                 SetReal(model, live, comp, [a0 EXCEPT !.ub = ub]))

fmi3SetInteger(A, B) ==
    \E l \in A, base \in B :
        LET a0 == [vr |-> l.vr, null |-> l.null,
                   value |-> HostValues(model, l.vr, base), ub |-> NoUB]
        IN \E ub \in (IF SetInteger(model, live, comp, a0).oob THEN UBOutcomes ELSE {NoUB}) :
              Do("fmi3SetInteger", [a0 EXCEPT !.ub = ub],
                 SetInteger(model, live, comp, [a0 EXCEPT !.ub = ub]))

fmi3SetBoolean(A, B) ==
    \E l \in A, base \in B :
        LET a0 == [vr |-> l.vr, null |-> l.null,
                   value |-> HostBooleans(model, l.vr, base), ub |-> NoUB]
        IN \E ub \in (IF SetBoolean(model, live, comp, a0).oob THEN UBOutcomes ELSE {NoUB}) :
              Do("fmi3SetBoolean", [a0 EXCEPT !.ub = ub],
                 SetBoolean(model, live, comp, [a0 EXCEPT !.ub = ub]))

fmi3SetString(A, B) ==
    \E l \in A, base \in B :
        LET a0 == [vr |-> l.vr, null |-> l.null,
                   value |-> HostValues(model, l.vr, base), ub |-> NoUB]
        IN \E ub \in (IF SetString(model, live, comp, a0).oob THEN UBOutcomes ELSE {NoUB}) :
              Do("fmi3SetString", [a0 EXCEPT !.ub = ub],
                 SetString(model, live, comp, [a0 EXCEPT !.ub = ub]))

\* fmi3GetFMUstate .. fmi3DeSerializeFMUstate, fmi3GetDirectionalDerivative
fmi3Unsupported ==
    \E f \in DOMAIN Unsupported :
        Do(f, <<>>, unsupportedFunction(live, comp, Unsupported[f]))

fmi3SetRealInputDerivatives ==
    Do("fmi3SetRealInputDerivatives", <<>>, SetRealInputDerivatives(model, live, comp))

fmi3GetRealOutputDerivatives(N) ==
    \E nvr \in N :
        Do("fmi3GetRealOutputDerivatives", [nvr |-> nvr],
           GetRealOutputDerivatives(model, live, comp, nvr))

fmi3CancelStep == Do("fmi3CancelStep", <<>>, CancelStep(model, live, comp))

fmi3DoStep(T, S) ==
    \E currentCommunicationPoint \in T, communicationStepSize \in S :
        Do("fmi3DoStep",
           [currentCommunicationPoint |-> currentCommunicationPoint,
            communicationStepSize |-> communicationStepSize],
           DoStep(model, live, comp, currentCommunicationPoint, communicationStepSize))

fmi3GetStatus(K) ==
    \E s \in K : Do("fmi3GetStatus", [s |-> s], GetStatus(model, live, comp, s))

fmi3GetRealStatus(K) ==
    \E s \in K : Do("fmi3GetRealStatus", [s |-> s], GetRealStatus(model, live, comp, s))

fmi3GetIntegerStatus(K) ==
    \E s \in K : Do("fmi3GetIntegerStatus", [s |-> s], GetIntegerStatus(model, live, comp, s))

fmi3GetBooleanStatus(K) ==
    \E s \in K : Do("fmi3GetBooleanStatus", [s |-> s], GetBooleanStatus(model, live, comp, s))

fmi3GetStringStatus(K) ==
    \E s \in K : Do("fmi3GetStringStatus", [s |-> s], GetStringStatus(model, live, comp, s))

fmi3EnterEventMode == Do("fmi3EnterEventMode", <<>>, EnterEventMode(model, live, comp))

fmi3NewDiscreteStates ==
    Do("fmi3NewDiscreteStates", <<>>, NewDiscreteStates(model, live, comp))

fmi3EnterContinuousTimeMode ==
    Do("fmi3EnterContinuousTimeMode", <<>>, EnterContinuousTimeMode(model, live, comp))

fmi3CompletedIntegratorStep(P) ==
    \E null \in P :
        Do("fmi3CompletedIntegratorStep", [null |-> null],
           CompletedIntegratorStep(model, live, comp, null))

fmi3SetTime(T) ==
    \E time \in T : Do("fmi3SetTime", [time |-> time], SetTime(model, live, comp, time))

\* the state vector the host passes: consecutive values from base on; of a
\* vector of 2^32 entries and more the first nx.low are kept
HostStates(nx, base) == [k \in 1..nx.low |-> base + k - 1]

\* what a loop that left its array handed back: a further value reached the
\* caller's buffer (ub.size = 1) or none did
Overrun(r, ub) ==
    IF r.oob /\ ub.size = 1 THEN [r EXCEPT !.out = Append(r.out, ub.val)] ELSE r

fmi3SetContinuousStates(N, B) ==
    \E a \in N, base \in B :
        Do("fmi3SetContinuousStates",
           [x |-> HostStates(a[1], base), nx |-> a[1], isNull |-> a[2]],
           SetContinuousStates(model, live, comp, HostStates(a[1], base), a[1], a[2]))

fmi3GetDerivatives(N) ==
    \E a \in N :
        LET r == GetDerivatives(model, live, comp, a[1], a[2])
        IN \E ub \in (IF r.oob THEN UBOutcomes ELSE {NoUB}) :
              Do("fmi3GetDerivatives", [nx |-> a[1], isNull |-> a[2], ub |-> ub], Overrun(r, ub))

fmi3GetEventIndicators(N) ==
    \E ni \in N :
        LET r == GetEventIndicators(model, live, comp, ni)
        IN \E ub \in (IF r.oob THEN UBOutcomes ELSE {NoUB}) :
              Do("fmi3GetEventIndicators", [ni |-> ni, ub |-> ub], Overrun(r, ub))

fmi3GetContinuousStates(N) ==
    \E a \in N :
        LET r == GetContinuousStates(model, live, comp, a[1], a[2])
        IN \E ub \in (IF r.oob THEN UBOutcomes ELSE {NoUB}) :
              Do("fmi3GetContinuousStates", [nx |-> a[1], isNull |-> a[2], ub |-> ub], Overrun(r, ub))

fmi3GetNominalsOfContinuousStates(N) ==
    \E a \in N :
        LET r == GetNominalsOfContinuousStates(model, live, comp, a[1], a[2])
        IN \E ub \in (IF r.oob THEN UBOutcomes ELSE {NoUB}) :
              Do("fmi3GetNominalsOfContinuousStates", [nx |-> a[1], isNull |-> a[2], ub |-> ub], Overrun(r, ub))

-----------------------------------------------------------------------------
(* Spec: every function of the interface on the plug-in Values, both        *)
(* fmuTypes; the host passes one or no value reference to a get or set call *)

Init ==
    /\ model = "Values"
    /\ live = FALSE
    /\ comp = NoInstance(model)
    /\ call = NoCall
    /\ peer = NoPeer(model)

\* (nx, isNull) of the continuous-time calls
Counts == {<<size_t(0, 0), FALSE>>, <<size_t(0, 1), FALSE>>, <<size_t(0, 1), TRUE>>}

Next ==
    \/ fmi3Instantiate(InstantiateArgs({fmi3False}))
    \/ fmi3FreeInstance
    \/ fmi3SetupExperiment({0})
    \/ fmi3EnterInitializationMode
    \/ fmi3ExitInitializationMode
    \/ fmi3Terminate
    \/ fmi3Reset
    \/ fmi3SetDebugLogging({fmi3False}, {<<>>})
    \/ fmi3GetReal(VrArgs({x_, N_VARIABLES(model)}, 1))
    \/ fmi3GetInteger(NoNull({int_out_, x_}, 1))
    \/ fmi3GetBoolean(NoNull({bool_in_, N_VARIABLES(model)}, 1))
    \/ fmi3GetString(NoNull({string_out_, bool_in_}, 1))
    \/ fmi3SetReal(VrArgs({N_VARIABLES(model)}, 1), {11})
    \/ fmi3SetInteger(NoNull({int_out_, x_}, 1), {11})
    \/ fmi3SetBoolean(NoNull({bool_in_}, 1), {1})
    \/ fmi3SetString(NoNull({string_out_, N_VARIABLES(model)}, 1), {1})
    \/ fmi3Unsupported
    \/ fmi3SetRealInputDerivatives
    \/ fmi3GetRealOutputDerivatives({1})
    \/ fmi3CancelStep
    \/ fmi3DoStep({0}, {0, One})
    \/ fmi3GetStatus({"fmi3DoStepStatus"})
    \/ fmi3GetRealStatus({"fmi3DoStepStatus", "fmi3LastSuccessfulTime"})
    \/ fmi3GetIntegerStatus({"fmi3PendingStatus"})
    \/ fmi3GetBooleanStatus({"fmi3LastSuccessfulTime", "fmi3Terminated"})
    \/ fmi3GetStringStatus({"fmi3Terminated"})
    \/ fmi3EnterEventMode
    \/ fmi3NewDiscreteStates
    \/ fmi3EnterContinuousTimeMode
    \/ fmi3CompletedIntegratorStep({"none", "enterEventMode", "terminateSimulation"})
    \/ fmi3SetTime({0})
    \/ fmi3SetContinuousStates(Counts, {0})
    \/ fmi3GetDerivatives(Counts)
    \/ fmi3GetEventIndicators({size_t(0, 0), size_t(0, 1)})
    \/ fmi3GetContinuousStates(Counts)
    \/ fmi3GetNominalsOfContinuousStates(Counts)

Spec == Init /\ [][Next]_vars

-----------------------------------------------------------------------------
(* The state check of the interface functions *)

\* the mask each function hands to invalidState (fmi3FreeInstance returns
\* nothing and fmi3Instantiate has no instance to check: they are not listed)
LegalStates ==
    [fmi3SetDebugLogging |-> MASK_fmi3SetDebugLogging,
     fmi3SetupExperiment |-> MASK_fmi3SetupExperiment,
     fmi3EnterInitializationMode |-> MASK_fmi3EnterInitializationMode,
     fmi3ExitInitializationMode |-> MASK_fmi3ExitInitializationMode,
     fmi3Terminate |-> MASK_fmi3Terminate,
     fmi3Reset |-> MASK_fmi3Reset,
     fmi3GetReal |-> MASK_fmi3GetReal,
     fmi3GetInteger |-> MASK_fmi3GetInteger,
     fmi3GetBoolean |-> MASK_fmi3GetBoolean,
     fmi3GetString |-> MASK_fmi3GetString,
     fmi3SetReal |-> MASK_fmi3SetReal,
     fmi3SetInteger |-> MASK_fmi3SetInteger,
     fmi3SetBoolean |-> MASK_fmi3SetBoolean,
     fmi3SetString |-> MASK_fmi3SetString,
     fmi3GetFMUstate |-> MASK_fmi3GetFMUstate,
     fmi3SetFMUstate |-> MASK_fmi3SetFMUstate,
     fmi3FreeFMUstate |-> MASK_fmi3FreeFMUstate,
     fmi3SerializedFMUstateSize |-> MASK_fmi3SerializedFMUstateSize,
     fmi3SerializeFMUstate |-> MASK_fmi3SerializeFMUstate,
     fmi3DeSerializeFMUstate |-> MASK_fmi3DeSerializeFMUstate,
     fmi3GetDirectionalDerivative |-> MASK_fmi3GetDirectionalDerivative,
     fmi3SetRealInputDerivatives |-> MASK_fmi3SetRealInputDerivatives,
     fmi3GetRealOutputDerivatives |-> MASK_fmi3GetRealOutputDerivatives,
     fmi3CancelStep |-> MASK_fmi3CancelStep,
     fmi3DoStep |-> MASK_fmi3DoStep,
     fmi3GetStatus |-> MASK_fmi3GetStatus,
     fmi3GetRealStatus |-> MASK_fmi3GetRealStatus,
     fmi3GetIntegerStatus |-> MASK_fmi3GetIntegerStatus,
     fmi3GetBooleanStatus |-> MASK_fmi3GetBooleanStatus,
     fmi3GetStringStatus |-> MASK_fmi3GetStringStatus,
     fmi3EnterEventMode |-> MASK_fmi3EnterEventMode,
     fmi3NewDiscreteStates |-> MASK_fmi3NewDiscreteStates,
     fmi3EnterContinuousTimeMode |-> MASK_fmi3EnterContinuousTimeMode,
     fmi3CompletedIntegratorStep |-> MASK_fmi3CompletedIntegratorStep,
     fmi3SetTime |-> MASK_fmi3SetTime,
     fmi3SetContinuousStates |-> MASK_fmi3SetContinuousStates,
     fmi3GetDerivatives |-> MASK_fmi3GetDerivatives,
     fmi3GetEventIndicators |-> MASK_fmi3GetEventIndicators,
     fmi3GetContinuousStates |-> MASK_fmi3GetContinuousStates,
     fmi3GetNominalsOfContinuousStates |-> MASK_fmi3GetNominalsOfContinuousStates]

-----------------------------------------------------------------------------
(* Claims on the lifecycle, checked under Spec *)

\* C1: a function called on an instance whose state is outside the
\* function's legal-state set returns fmi3Error and leaves the instance as
\* it was except for the state, which becomes modelError.
C1_SequenceError ==
    [][(/\ live
        /\ call'.op \in DOMAIN LegalStates
        /\ comp.state \notin LegalStates[call'.op])
       => (/\ call'.status = fmi3Error
           /\ live'
           /\ comp' = [comp EXCEPT !.state = "modelError"])]_vars

\* fmi3DoStep with a positive step size was called in modelInstantiated and
\* was rejected for the state alone
C1_Witness ==
    /\ live
    /\ call.op = "fmi3DoStep"
    /\ call.args.communicationStepSize > 0
    /\ call.from = "modelInstantiated"
    /\ call.status = fmi3Error
    /\ comp.state = "modelError"

TeardownCalls == {"fmi3FreeInstance", "fmi3Reset"}

\* the functions whose mask holds modelError and which do not always fail
ServedInError ==
    {"fmi3GetReal", "fmi3GetInteger", "fmi3GetBoolean", "fmi3GetString",
     "fmi3SetDebugLogging", "fmi3GetDerivatives", "fmi3GetEventIndicators",
     "fmi3GetContinuousStates", "fmi3GetNominalsOfContinuousStates"}

C3_ErrorAbsorbing ==
    [][(/\ live
        /\ comp.state = "modelError"
        /\ call'.op \notin TeardownCalls)
       => (live' /\ comp'.state = "modelError")]_vars

\* a call made in modelError succeeded and the state is still modelError
C3_Witness ==
    /\ live
    /\ call.from = "modelError"
    /\ call.op = "fmi3GetReal"
    /\ call.status = fmi3OK
    /\ comp.state = "modelError"

\* the state a function with a documented transition leads to
NextState(op, cmp) ==
    CASE op = "fmi3EnterInitializationMode" -> "modelInitializationMode"
      [] op = "fmi3ExitInitializationMode" ->
            IF cmp.type = fmi3ModelExchange THEN "modelEventMode" ELSE "modelStepComplete"
      [] op = "fmi3EnterEventMode" -> "modelEventMode"
      [] op = "fmi3EnterContinuousTimeMode" -> "modelContinuousTimeMode"
      [] op = "fmi3Terminate" -> "modelTerminated"
      [] op = "fmi3Reset" -> "modelInstantiated"

TransitionCalls ==
    {"fmi3EnterInitializationMode", "fmi3ExitInitializationMode", "fmi3EnterEventMode",
     "fmi3EnterContinuousTimeMode", "fmi3Terminate", "fmi3Reset"}

\* C4: a function with a documented transition, called in a state of its
\* legal-state set, returns fmi3OK and leads to the documented state;
\* fmi3Instantiate with valid arguments and memory returns an instance in
\* modelInstantiated.
C4_DocumentedTransitions ==
    [][/\ (/\ live
           /\ call'.op \in TransitionCalls
           /\ comp.state \in LegalStates[call'.op])
          => (/\ call'.status = fmi3OK
              /\ live'
              /\ comp'.state = NextState(call'.op, comp))
       /\ (/\ ~live
           /\ call'.op = "fmi3Instantiate"
           /\ call'.args.args = "ok"
           /\ call'.args.mem = "ok")
          => (live' /\ comp'.state = "modelInstantiated")]_vars

\* fmi3ExitInitializationMode led a co-simulation instance to modelStepComplete
C4_Witness ==
    /\ live
    /\ call.op = "fmi3ExitInitializationMode"
    /\ call.from = "modelInitializationMode"
    /\ call.status = fmi3OK
    /\ comp.type = fmi3CoSimulation
    /\ comp.state = "modelStepComplete"

-----------------------------------------------------------------------------
(* SpecStep: a co-simulation instance of the plug-in Values is stepped; the *)
(* host may set int_out close to the month the plug-in ends the run at      *)

\* fmi3Instantiate(.., fmi3CoSimulation, .., loggingOn = fmi3False) that succeeds
CoSimulationArgs ==
    {[args |-> "ok", mem |-> "ok", fmuType |-> fmi3CoSimulation, loggingOn |-> fmi3False]}

\* the communication points and step sizes the host passes to fmi3DoStep
StepPoints == {0, One}

StepSizes == {-One, 0, 4, One}

InitStep ==
    /\ model = "Values"
    /\ live = FALSE
    /\ comp = NoInstance(model)
    /\ call = NoCall
    /\ peer = NoPeer(model)

NextStep ==
    \/ fmi3Instantiate(CoSimulationArgs)
    \/ fmi3SetupExperiment({0})
    \/ fmi3EnterInitializationMode
    \/ fmi3ExitInitializationMode
    \/ fmi3SetInteger(NoNull({int_out_}, 1), {NumMonths - 1})
    \/ fmi3GetInteger(NoNull({int_out_}, 1))
    \/ fmi3DoStep(StepPoints, StepSizes)
    \/ fmi3Terminate
    \/ fmi3Reset

SpecStep == InitStep /\ [][NextStep]_vars

\* the call just made is fmi3DoStep in modelStepComplete with this test of
\* the step size
DoStepCalled(c, cmp, sizeOK) ==
    /\ c.op = "fmi3DoStep"
    /\ cmp.state = "modelStepComplete"
    /\ (c.args.communicationStepSize > 0) = sizeOK

\* C5: fmi3DoStep in modelStepComplete with communicationStepSize <= 0
\* returns fmi3Error and leaves comp->time as it was, whatever
\* currentCommunicationPoint is.
C5_RejectedStepKeepsTime ==
    [][(live /\ DoStepCalled(call', comp, FALSE))
       => (call'.status = fmi3Error /\ comp'.time = comp.time)]_vars

\* a step of size <= 0 from a communication point other than the time of the
\* instance was rejected
C5_Witness ==
    /\ live
    /\ call.op = "fmi3DoStep"
    /\ call.from = "modelStepComplete"
    /\ call.args.communicationStepSize <= 0
    /\ call.args.currentCommunicationPoint # comp.time
    /\ call.status = fmi3Error

\* C6 as stated: fmi3DoStep rejected for communicationStepSize <= 0 changes
\* nothing: state, time, variables, eventInfo and dirty flag are as before.
C6_RejectedStepChangesNothing ==
    [][(live /\ DoStepCalled(call', comp, FALSE)) => comp' = comp]_vars

\* C6 amended: fmi3DoStep rejected for communicationStepSize <= 0 changes
\* the state to modelError and nothing else: time, variables, eventInfo and
\* dirty flag are as before.
C6_RejectedStepChangesStateOnly ==
    [][(live /\ DoStepCalled(call', comp, FALSE))
       => comp' = [comp EXCEPT !.state = "modelError"]]_vars

\* a step of size <= 0 was rejected on an instance with a scheduled event
\* whose values were dirty, and it is still dirty, in modelError
C6_Witness ==
    /\ live
    /\ call.op = "fmi3DoStep"
    /\ call.from = "modelStepComplete"
    /\ call.args.communicationStepSize <= 0
    /\ comp.state = "modelError"
    /\ comp.isDirtyValues = fmi3True
    /\ comp.eventInfo.nextEventTimeDefined = fmi3True

\* C7: in fmi3DoStep the sub-step after which eventInfo.terminateSimulation
\* is set is the last one performed: the instance is as that sub-step left
\* it, the state is modelStepFailed and the call returns fmi3Discard.
C7_TerminationEndsStep ==
    (live /\ call.op = "fmi3DoStep" /\ call.steps # <<>>)
    => LET last == Len(call.steps)
       IN /\ \A i \in 1..last :
                call.steps[i].terminateSimulation = fmi3True => i = last
          /\ call.steps[last].terminateSimulation = fmi3True
                => /\ call.status = fmi3Discard
                   /\ comp.state = "modelStepFailed"
                   /\ comp.time = call.steps[last].time

\* a step was ended by the event hook before its last sub-step
C7_Witness ==
    /\ live
    /\ call.op = "fmi3DoStep"
    /\ call.steps # <<>>
    /\ Len(call.steps) < n
    /\ call.steps[Len(call.steps)].hook
    /\ call.steps[Len(call.steps)].terminateSimulation = fmi3True
    /\ call.status = fmi3Discard
    /\ comp.state = "modelStepFailed"

\* C8: fmi3DoStep with communicationStepSize > 0 and no termination
\* performs n = 10 sub-steps, each a tenth of communicationStepSize long,
\* returns fmi3OK, leaves the state modelStepComplete and the time at
\* currentCommunicationPoint + communicationStepSize.
C8_FullStepReachesEnd ==
    [][(/\ live
        /\ DoStepCalled(call', comp, TRUE)
        /\ \A i \in 1..Len(call'.steps) :
              call'.steps[i].terminateSimulation = fmi3False)
       => (/\ Len(call'.steps) = n
           /\ \A i \in 1..Len(call'.steps) :
                 n * (call'.steps[i].time
                        - (IF i = 1 THEN call'.args.currentCommunicationPoint
                           ELSE call'.steps[i - 1].time))
                   = call'.args.communicationStepSize
           /\ call'.status = fmi3OK
           /\ comp'.state = "modelStepComplete"
           /\ comp'.time = call'.args.currentCommunicationPoint
                              + call'.args.communicationStepSize)]_vars

-----------------------------------------------------------------------------
(* SpecSet: the host sets values in batches of up to MaxNvr value           *)
(* references on a co-simulation instance of either plug-in                 *)

\* the value references the host passes to each set call; with N_VARIABLES
\* 8 (Values) and 7 (LinearTransform) they hold, for each plug-in, a
\* reference the call's kind check admits and one it rejects
SetRealVrs == {1, 7}

SetIntegerVrs == {3, 0}

SetBooleanVrs == {5, 3}

SetStringVrs == {7, 0}

\* the longest batch of a set call other than fmi3SetReal: on LinearTransform
\* such a call leaves the block of its first entry, and the host passes one
\* entry at most
ShortBatch == IF model = "Values" THEN MaxNvr ELSE 1

InitSet ==
    /\ model \in Models
    /\ live = FALSE
    /\ comp = NoInstance(model)
    /\ call = NoCall
    /\ peer = NoPeer(model)

NextSet ==
    \/ fmi3Instantiate(CoSimulationArgs)
    \/ fmi3EnterInitializationMode
    \/ fmi3ExitInitializationMode
    \/ fmi3SetReal(NoNull(SetRealVrs, MaxNvr), {11})
    \/ fmi3SetInteger(NoNull(SetIntegerVrs, ShortBatch), {11})
    \/ fmi3SetBoolean(NoNull(SetBooleanVrs, ShortBatch), {1})
    \/ fmi3SetString(NoNull(SetStringVrs, ShortBatch), {1})
    \/ fmi3Reset

SpecSet == InitSet /\ [][NextSet]_vars

\* the kind of variable each set function is for
SetKind ==
    [fmi3SetReal |-> "r", fmi3SetInteger |-> "i", fmi3SetBoolean |-> "b",
     fmi3SetString |-> "s"]

\* the last call is a set call that passed the state and pointer checks
SetAdmitted ==
    /\ live
    /\ call.op \in DOMAIN SetKind
    /\ call.from \in LegalStates[call.op]
    /\ call.args.null = "none"

\* C9: after a set call that stored at least one value the instance is
\* dirty, also when a later entry of the batch was rejected.
C9_WriteMarksDirty ==
    (SetAdmitted /\ call.steps # <<>>) => comp.isDirtyValues = fmi3True

\* entry i (from 1) of the batch of the last call is out of range or of
\* another kind than the call's
InvalidEntry(i) ==
    \/ call.args.vr[i] >= N_VARIABLES(model)
    \/ s_variableTypes(model)[call.args.vr[i] + 1] # SetKind[call.op]

\* C10: a set call whose batch holds an invalid entry returns fmi3Error;
\* with f the first invalid entry, every entry before f is in the store
\* with all elements of its declared length (the last of the entries before
\* f that name a variable decides its value), and nothing was stored for an
\* entry at or after f.
C10_StopsAtFirstInvalidEntry ==
    (SetAdmitted /\ \E i \in 1..Len(call.args.vr) : InvalidEntry(i))
    => LET vr == call.args.vr
           f == CHOOSE i \in 1..Len(vr) :
                   InvalidEntry(i) /\ \A g \in 1..(i - 1) : ~InvalidEntry(g)
       IN /\ call.status = fmi3Error
          /\ \A w \in 1..Len(call.steps) : call.steps[w].i + 1 < f
          /\ \A i \in 1..(f - 1) :
                (\A g \in (i + 1)..(f - 1) : vr[g] # vr[i])
                => \A j \in 1..DeclSize(model, vr[i]) :
                      comp.variables[vr[i]][j]
                         = call.args.value[Offset(model, vr, i - 1) + j]

-----------------------------------------------------------------------------
(* SpecGet: the host reads values of the four kinds from a co-simulation    *)
(* instance of either plug-in, reals in batches of up to MaxNvr, between    *)
(* writes of reals and integers                                             *)

\* the value references the host passes to each call (N_VARIABLES is 8 on
\* Values and 7 on LinearTransform)
GetRealVrs == {0, 1}

\* the real reads: batches of one value reference, and each one alone
RealBatches == VrArgs({1}, MaxNvr) \cup NoNull(GetRealVrs, 1)

GetIntegerVrs == {3, 4}

GetBooleanVrs == {5, 3}

GetStringVrs == {7, 5}

\* the integer writes: one entry that is accepted, alone and followed by an
\* entry that is rejected
IntegerBatches == {[vr |-> q, null |-> "none"] : q \in {<<3>>, <<3, 0>>}}

InitGet ==
    /\ model \in Models
    /\ live = FALSE
    /\ comp = NoInstance(model)
    /\ call = NoCall
    /\ peer = NoPeer(model)

NextGet ==
    \/ fmi3Instantiate(CoSimulationArgs)
    \/ fmi3EnterInitializationMode
    \/ fmi3ExitInitializationMode
    \/ fmi3SetReal(NoNull(GetRealVrs, 1), {11})
    \/ fmi3SetInteger(IntegerBatches, {11})
    \/ fmi3GetReal(RealBatches)
    \/ fmi3GetInteger(NoNull(GetIntegerVrs, 1))
    \/ fmi3GetBoolean(NoNull(GetBooleanVrs, 1))
    \/ fmi3GetString(NoNull(GetStringVrs, 1))

SpecGet == InitGet /\ [][NextGet]_vars

GetCalls == {"fmi3GetReal", "fmi3GetInteger", "fmi3GetBoolean", "fmi3GetString"}

\* the call just made is a get call that passed the state check
GetPassedStateCheck(c, cmp) ==
    /\ live
    /\ c.op \in GetCalls
    /\ cmp.state \in LegalStates[c.op]

\* C11 as stated: a get call that passed the state check, whatever the
\* length of its list, runs calculateValues once and clears the dirty flag
\* when the instance is dirty, and does not run it otherwise.
C11_GetRecomputesOnce ==
    [][GetPassedStateCheck(call', comp)
       => IF comp.isDirtyValues = fmi3True
          THEN call'.hooks = 1 /\ comp'.isDirtyValues = fmi3False
          ELSE call'.hooks = 0]_vars

\* C11 amended: the same for a get call with a list that is not empty and
\* without a NULL pointer; with an empty list or a NULL pointer
\* calculateValues does not run and the dirty flag keeps its value.
C11_NonEmptyGetRecomputesOnce ==
    [][GetPassedStateCheck(call', comp)
       => IF Len(call'.args.vr) > 0 /\ call'.args.null = "none"
          THEN IF comp.isDirtyValues = fmi3True
               THEN call'.hooks = 1 /\ comp'.isDirtyValues = fmi3False
               ELSE call'.hooks = 0 /\ comp'.isDirtyValues = fmi3False
          ELSE call'.hooks = 0 /\ comp'.isDirtyValues = comp.isDirtyValues]_vars

\* a get of two values ran calculateValues once on LinearTransform and left
\* the instance clean
C11_Witness ==
    /\ live
    /\ model = "LinearTransform"
    /\ call.op = "fmi3GetReal"
    /\ Len(call.args.vr) = 2
    /\ call.status = fmi3OK
    /\ call.hooks = 1
    /\ comp.isDirtyValues = fmi3False

\* the value the store holds for the element a read record names once
\* calculateValues has been applied to it
Recomputed(m, cmp, r) == calculateValues(m, cmp).variables[r.vr][r.j + 1]

\* C12: the values an admitted get returns are those of the store after
\* calculateValues, whatever set calls came before it (a batch that stored
\* some entries and then failed included): each element read from its block
\* equals the element of the recomputed store.
C12_GetObservesSets ==
    (live /\ call.op \in GetCalls /\ call.from \in LegalStates[call.op])
        => \A e \in 1..Len(call.steps) :
              LET r == call.steps[e]
              IN (~Outside(model, r.vr, r.j) /\ r.k < Len(call.out))
                    => call.out[r.k + 1] = Recomputed(model, comp, r)

\* the reals getReal computes when they are read (der_x of Values)
DerivedReals(m) == IF m = "Values" THEN {der_x_} ELSE {}

\* an accepted fmi3SetReal of one real that is not derived, followed at once
\* by fmi3GetReal of the same value reference
SetThenGetReal ==
    /\ live
    /\ call.op = "fmi3SetReal"
    /\ call.from \in MASK_fmi3SetReal
    /\ call.status = fmi3OK
    /\ Len(call.args.vr) = 1
    /\ call.args.vr[1] \notin DerivedReals(model)
    /\ comp.state \in MASK_fmi3GetReal
    /\ call'.op = "fmi3GetReal"
    /\ call'.args.null = "none"
    /\ call'.args.vr = call.args.vr

\* C13: round trip: where both calls are legal, fmi3GetReal of a real that
\* is not derived, called right after fmi3SetReal stored x in it, returns
\* fmi3OK and exactly x, one value for every element of its declared length.
C13_RealRoundTrip ==
    [][SetThenGetReal
       => /\ call'.status = fmi3OK
          /\ call'.out = call.args.value
          /\ Len(call'.out) = DeclSize(model, call.args.vr[1])]_vars

\* the kind of variable each get and set function is for
ValueKind ==
    [fmi3GetReal |-> "r", fmi3GetInteger |-> "i", fmi3GetBoolean |-> "b",
     fmi3GetString |-> "s", fmi3SetReal |-> "r", fmi3SetInteger |-> "i",
     fmi3SetBoolean |-> "b", fmi3SetString |-> "s"]

\* entry i (from 1) of the last get or set call is out of range or names a
\* variable of another kind than the function's
WrongEntry(i) ==
    \/ call.args.vr[i] >= N_VARIABLES(model)
    \/ s_variableTypes(model)[call.args.vr[i] + 1] # ValueKind[call.op]

\* C14: a get or set call of any of the four kinds that passed the state
\* and pointer checks returns fmi3Error and leaves the instance in
\* modelError when an entry is out of range or of another kind, and does
\* not fail when every entry is in range and of the function's kind.
C14_KindAndRangeChecked ==
    (/\ live
     /\ call.op \in DOMAIN ValueKind
     /\ call.from \in LegalStates[call.op]
     /\ call.args.null = "none")
        => IF \E i \in 1..Len(call.args.vr) : WrongEntry(i)
           THEN call.status = fmi3Error /\ comp.state = "modelError"
           ELSE call.status = fmi3OK

\* the accesses claim C15 describes for the batch vr: entry i (from 0) moves
\* the elements 0 .. declared length - 1 of vr[i], at the buffer positions
\* that follow those of the entries before it
ExpectedSteps(m, vr) ==
    [p \in 1..Offset(m, vr, Len(vr)) |->
        LET i == CHOOSE e \in 0..(Len(vr) - 1) :
                    Offset(m, vr, e) < p /\ p <= Offset(m, vr, e + 1)
        IN [i |-> i, vr |-> vr[i + 1], j |-> p - 1 - Offset(m, vr, i), k |-> p - 1]]

\* the last call is a get or set call that stores or reads values, passed
\* the state and pointer checks and accepted every entry
BatchServed ==
    /\ live
    /\ call.op \in DOMAIN ValueKind \ {"fmi3SetString"}
    /\ call.from \in LegalStates[call.op]
    /\ call.args.null = "none"
    /\ call.status = fmi3OK

\* C15: in a get or set call that accepted its batch, entry i moves exactly
\* the declared length of vr[i] in consecutive elements, in request order,
\* and its first buffer position is the sum of the declared lengths of the
\* entries before it.
C15_BufferLayout ==
    BatchServed => call.steps = ExpectedSteps(model, call.args.vr)

\* C16: every element a get or set call reads or writes lies within the
\* declared length of its variable, and s_variableSizes is only read at
\* positions below N_VARIABLES.
C16_AccessesWithinBlocks ==
    (live /\ call.op \in DOMAIN ValueKind)
        => \A e \in 1..Len(call.steps) :
              /\ ~Outside(model, call.steps[e].vr, call.steps[e].j)
              /\ call.steps[e].i < N_VARIABLES(model)

-----------------------------------------------------------------------------
(* The optional functions, under Spec                                       *)

\* the functions of optional features the template does not implement
UnsupportedCalls ==
    DOMAIN Unsupported \cup {"fmi3SetRealInputDerivatives", "fmi3GetRealOutputDerivatives"}

\* C17: a call of an unsupported function returns fmi3Error; made in a
\* state of its mask it leaves the whole instance (state, time, variables,
\* dirty flag, eventInfo) as it was, made in another state it is a sequence
\* error: the state becomes modelError and nothing else changes.
C17_UnsupportedChangesNothing ==
    [][(live /\ call'.op \in UnsupportedCalls)
       => /\ call'.status = fmi3Error
          /\ IF comp.state \in LegalStates[call'.op]
             THEN comp' = comp
             ELSE comp' = [comp EXCEPT !.state = "modelError"]]_vars

\* fmi3SerializeFMUstate was called in a state of its mask and refused
C17_Witness ==
    /\ live
    /\ call.op = "fmi3SerializeFMUstate"
    /\ call.from \in MASK_fmi3SerializeFMUstate
    /\ call.status = fmi3Error
    /\ comp.state = "modelStepComplete"

\* C18: fmi3DoStep never returns fmi3Pending, the instance is never in
\* modelStepInProgress, and fmi3CancelStep returns fmi3Error whenever it is
\* called.
C18_NeverPending ==
    /\ live => comp.state # "modelStepInProgress"
    /\ call.op = "fmi3DoStep" => call.status \in {fmi3OK, fmi3Discard, fmi3Error}
    /\ call.op = "fmi3CancelStep" => call.status = fmi3Error

\* fmi3CancelStep was refused after a communication step had advanced the
\* time
C18_Witness ==
    /\ live
    /\ call.op = "fmi3CancelStep"
    /\ call.from = "modelStepComplete"
    /\ call.status = fmi3Error
    /\ comp.time > 0

-----------------------------------------------------------------------------
(* SpecLog: the host configures the logging of an instance of Values        *)

\* the names the host passes: two categories of logCategoriesNames and one
\* name that is not in it
HostCategories == {"logError", "logEvent", "logUnknown"}

CategoryLists == SeqsUpTo(HostCategories, MaxCategories)

LoggingArgs ==
    [args : {"ok"}, mem : {"ok"}, fmuType : {fmi3CoSimulation},
     loggingOn : {fmi3True, fmi3False}]

InitLog ==
    /\ model = "Values"
    /\ live = FALSE
    /\ comp = NoInstance(model)
    /\ call = NoCall
    /\ peer = NoPeer(model)

NextLog ==
    \/ fmi3Instantiate(LoggingArgs)
    \/ fmi3SetDebugLogging({fmi3True, fmi3False}, CategoryLists)
    \/ fmi3EnterInitializationMode
    \/ fmi3ExitInitializationMode
    \/ fmi3Terminate

SpecLog == InitLog /\ [][NextLog]_vars

\* the last call is fmi3SetDebugLogging with the list cats, made in a state
\* of its mask
LoggingSetTo(cats) ==
    /\ live
    /\ call.op = "fmi3SetDebugLogging"
    /\ call.from \in MASK_fmi3SetDebugLogging
    /\ call.args.categories = cats

\* C19 as stated: after fmi3SetDebugLogging with nCategories = 0 all four
\* categories are enabled, whatever loggingOn is.
C19_NoCategoriesEnablesAll ==
    LoggingSetTo(<<>>)
        => \A j \in 1..NUMBER_OF_CATEGORIES : comp.logCategories[j] = fmi3True

\* C19 amended: after fmi3SetDebugLogging with nCategories = 0 all four
\* categories have the value of loggingOn: enabled when it is fmi3True,
\* disabled when it is fmi3False.
C19_NoCategoriesAppliesToAll ==
    LoggingSetTo(<<>>)
        => /\ call.status = fmi3OK
           /\ comp.loggingOn = call.args.loggingOn
           /\ \A j \in 1..NUMBER_OF_CATEGORIES :
                 comp.logCategories[j] = call.args.loggingOn

\* logging was switched on for all categories of an instance in
\* initialization mode
C19_Witness ==
    /\ LoggingSetTo(<<>>)
    /\ call.args.loggingOn = fmi3True
    /\ call.from = "modelInitializationMode"
    /\ \A j \in 1..NUMBER_OF_CATEGORIES : comp.logCategories[j] = fmi3True

\* C20 as stated: fmi3SetDebugLogging with one name that is not a category
\* warns the host of it and leaves every category flag as it was.
C20_UnknownCategoryChangesNothing ==
    [][(/\ live
        /\ comp.state \in MASK_fmi3SetDebugLogging
        /\ call'.op = "fmi3SetDebugLogging"
        /\ call'.args.categories = <<"logUnknown">>)
       => /\ call'.out = <<"logUnknown">>
          /\ comp'.logCategories = comp.logCategories]_vars

\* C20 amended: fmi3SetDebugLogging with one name that is not a category
\* warns the host of it and leaves every category disabled.
C20_UnknownCategoryDisablesAll ==
    LoggingSetTo(<<"logUnknown">>)
        => /\ call.status = fmi3OK
           /\ call.out = <<"logUnknown">>
           /\ comp.loggingOn = call.args.loggingOn
           /\ \A j \in 1..NUMBER_OF_CATEGORIES : comp.logCategories[j] = fmi3False

\* the unknown name was passed with logging on to an instance in step
\* complete
C20_Witness ==
    /\ LoggingSetTo(<<"logUnknown">>)
    /\ call.args.loggingOn = fmi3True
    /\ call.from = "modelStepComplete"
    /\ call.out = <<"logUnknown">>
    /\ comp.logCategories = <<fmi3False, fmi3False, fmi3False, fmi3False>>

-----------------------------------------------------------------------------
(* fmi3FreeInstance and the blocks of the instance *)

\* how often block b occurs among the blocks q handed to freeMemory
TimesFreed(q, b) == Cardinality({k \in 1..Len(q) : q[k] = b})

\* C27: after fmi3FreeInstance in a state of its mask, every block that
\* fmi3Instantiate obtained from allocateMemory for the instance (the block
\* of every variable, isPositive, the instance name, the GUID, the instance
\* record) has been handed to freeMemory exactly once
C27_EveryBlockFreedOnce ==
    (call.op = "fmi3FreeInstance" /\ call.from \in MASK_fmi3FreeInstance)
        => \A k \in 1..Len(AllocatedBlocks(model)) :
              TimesFreed(call.out, AllocatedBlocks(model)[k]) = 1
-----------------------------------------------------------------------------
(* fmi3Reset and the start values *)

\* the start values Values.c declares, by value reference (der_x has none)
StartValues ==
    [vr \in {x_, int_in_, int_out_, bool_in_, bool_out_, string_in_, string_out_} |->
        CASE vr = x_ -> One
          [] vr = int_in_ -> 2
          [] vr = int_out_ -> 0
          [] vr = bool_in_ -> fmi3True
          [] vr = bool_out_ -> fmi3False
          [] vr = string_in_ -> QTronic
          [] vr = string_out_ -> month(0)]

\* C28: fmi3Reset in a state of its mask returns fmi3OK, puts the instance
\* in modelInstantiated, marks the values dirty and gives every variable with
\* a declared start value, the texts included, that value again
C28_ResetRestoresStartValues ==
    (call.op = "fmi3Reset" /\ call.from \in MASK_fmi3Reset)
        => /\ call.status = fmi3OK
           /\ comp.state = "modelInstantiated"
           /\ comp.isDirtyValues = fmi3True
           /\ \A vr \in DOMAIN StartValues : comp.variables[vr][1] = StartValues[vr]
-----------------------------------------------------------------------------
(* The messages that reach the logger, checked under SpecLog *)

\* the message has error or fatal severity
Severe(msg) == msg.status = fmi3Error \/ msg.status = fmi3Fatal

\* the call was made on an instance in a state outside the function's mask
SequenceErrorCall ==
    /\ call.op \in DOMAIN LegalStates
    /\ call.from # "modelStartAndEnd"
    /\ call.from \notin LegalStates[call.op]

\* C21 as stated: every message a call passes to the logger has error or
\* fatal severity or belongs to a category that is logged when it is sent,
\* and the error message of a rejected call is delivered whatever the flags
C21_DeliveredMessagesPassFilter ==
    /\ \A k \in 1..Len(call.log) : Severe(call.log[k]) \/ call.log[k].enabled
    /\ SequenceErrorCall => \E k \in 1..Len(call.log) : Severe(call.log[k])

\* C21 amended: as stated, except for the warning of fmi3SetDebugLogging
\* about a category name it does not know, which always reaches the logger
C21_DeliveredMessagesPassFilterOrWarnOfCategory ==
    /\ \A k \in 1..Len(call.log) :
          \/ Severe(call.log[k])
          \/ call.log[k].enabled
          \/ /\ call.op = "fmi3SetDebugLogging"
             /\ call.log[k].status = fmi3Warning
             /\ call.log[k].text = "logging category is not supported by model"
    /\ SequenceErrorCall => \E k \in 1..Len(call.log) : Severe(call.log[k])

\* a rejected call delivered its error message while the category logError
\* was off
C21_Witness ==
    /\ SequenceErrorCall
    /\ Len(call.log) = 1
    /\ Severe(call.log[1])
    /\ ~call.log[1].enabled
-----------------------------------------------------------------------------
(* SpecEvent: co-simulation stepping with state events (BouncingBall) and   *)
(* time events (Values); the host may set the restitution e of the ball to 0 *)

BallStepSizes == {One}

InitEvent ==
    /\ model \in {"BouncingBall", "Values"}
    /\ live = FALSE
    /\ comp = NoInstance(model)
    /\ call = NoCall
    /\ peer = NoPeer(model)

NextEvent ==
    \/ fmi3Instantiate(CoSimulationArgs)
    \/ fmi3SetupExperiment({0})
    \/ fmi3EnterInitializationMode
    \/ fmi3ExitInitializationMode
    \/ fmi3SetReal(NoNull({e_}, 1), {0})
    \/ fmi3DoStep(StepPoints, BallStepSizes)
    \/ fmi3Reset

SpecEvent == InitEvent /\ [][NextEvent]_vars

\* the sub-steps of the fmi3DoStep call just made
StepsDone == IF call.op = "fmi3DoStep" THEN call.steps ELSE <<>>

\* C30: in fmi3DoStep a state event is flagged for indicator z in a sub-step
\* exactly when the product of the indicator after the sub-step and its
\* recorded previous value is negative (a product of zero flags nothing);
\* the previous value is the indicator at the start of the call for the
\* first sub-step and the indicator after the sub-step before for every
\* other, whether or not an event fired
C30_StateEventOnSignChange ==
    [][\A j \in 1..Len(StepsDone') :
          LET step == StepsDone'[j]
          IN /\ step.prev = IF j = 1 THEN EventIndicators(model, comp)
                                     ELSE StepsDone'[j - 1].ei
             /\ \A z \in 1..NUMBER_OF_EVENT_INDICATORS(model) :
                   (z \in step.flagged) <=> (step.ei[z] * step.prev[z] < 0)
             /\ step.stateEvent = Cardinality(step.flagged)]_vars

\* a fmi3DoStep of the ball with a sub-step that flagged a state event, a
\* later sub-step that flagged none, and one after a flagged sub-step whose
\* previous value is the indicator of the flagged sub-step
C30_Witness ==
    /\ model = "BouncingBall"
    /\ call.op = "fmi3DoStep"
    /\ \E j \in 1..(Len(call.steps) - 1) :
          /\ call.steps[j].flagged = {1}
          /\ call.steps[j + 1].flagged = {}
          /\ call.steps[j + 1].prev = call.steps[j].ei
\* C29: in every sub-step of fmi3DoStep eventUpdate is called exactly when a
\* state event or a time event was flagged in that sub-step, at most once,
\* with the argument isTimeEvent true exactly when a time event was flagged;
\* no flag is left for a later sub-step
C29_HookIffEventFlagged ==
    \A j \in 1..Len(StepsDone) :
        LET step == StepsDone[j]
        IN /\ step.hookCalls \in {0, 1}
           /\ (step.hookCalls = 1) <=> (step.flagged # {} \/ step.timeFlagged)
           /\ step.hookCalls = 1 => (step.isTimeEvent <=> step.timeFlagged)
           /\ step.stateEventLeft = 0
           /\ ~step.timeEventLeft

\* a fmi3DoStep in which eventUpdate ran in one sub-step and not in the next
C29_Witness ==
    /\ call.op = "fmi3DoStep"
    /\ \E j \in 1..(Len(call.steps) - 1) :
          /\ call.steps[j].hookCalls = 1
          /\ call.steps[j + 1].hookCalls = 0

\* the sub-steps of the ball in which the indicator of h turned negative
Impacts == {j \in 1..Len(StepsDone) : model = "BouncingBall" /\ StepsDone[j].flagged # {}
                                        /\ StepsDone[j].ei[1] < 0}

\* the absolute value of a real
Abs(a) == IF a < 0 THEN -a ELSE a

\* C23: in the sub-step of fmi3DoStep where the indicator of the height turns
\* negative the velocity becomes -e times the velocity held just before
\* eventUpdate (e is 0.7 unless the host changed it), and when that speed is
\* below 1e-3 velocity and acceleration both become 0
C23_ImpactReflectsVelocity ==
    \A j \in Impacts :
        LET before == StepsDone[j].before
            after == StepsDone[j].after
            reflected == RoundDiv(-before[e_][1] * before[v_][1], Fine)
        IN IF 1000 * Abs(reflected) < Fine
           THEN after[v_][1] = 0 /\ after[der_v_][1] = 0
           ELSE after[v_][1] = reflected /\ after[der_v_][1] = before[der_v_][1]

\* the ball with its start values hit the floor and left it with 0.7 times
\* its speed
C23_Witness ==
    /\ Impacts # {}
    /\ \E j \in Impacts :
          /\ StepsDone[j].before[e_][1] = RoundDiv(7 * Fine, 10)
          /\ StepsDone[j].before[v_][1] < 0
          /\ StepsDone[j].after[v_][1] = RoundDiv(-7 * StepsDone[j].before[v_][1], 10)
          /\ StepsDone[j].after[v_][1] > 0
-----------------------------------------------------------------------------
(* SpecRun: the host of fmurun.c on BouncingBall: it creates the instance,  *)
(* initializes it and calls fmi3DoStep(c, 0.0, step, fmi3False) in a loop,  *)
(* here without end; the host never stops between two calls                 *)

InitRun ==
    /\ model = "BouncingBall"
    /\ live = FALSE
    /\ comp = NoInstance(model)
    /\ call = NoCall
    /\ peer = NoPeer(model)

NextRun ==
    \/ call.op = "none" /\ fmi3Instantiate(CoSimulationArgs)
    \/ call.op = "fmi3Instantiate" /\ fmi3SetupExperiment({0})
    \/ call.op = "fmi3SetupExperiment" /\ fmi3EnterInitializationMode
    \/ call.op = "fmi3EnterInitializationMode" /\ fmi3ExitInitializationMode
    \/ call.op \in {"fmi3ExitInitializationMode", "fmi3DoStep"} /\ fmi3DoStep({0}, {One})

SpecRun == InitRun /\ [][NextRun]_vars /\ WF_vars(NextRun)

\* how far under the floor the ball may get: one start height
MaxDepth == Fine

\* C24: under repeated successful fmi3DoStep calls from the start values the
\* ball comes to rest: from some point on no step changes the height any
\* more, and the height never falls without bound below zero
C24_BallComesToRest ==
    /\ <>[][comp'.variables[h_][1] = comp.variables[h_][1]]_vars
    /\ [](live => comp.variables[h_][1] >= -MaxDepth)

-----------------------------------------------------------------------------
(* The scheduled events of Values: a host that advances the instance from
   the time it has reached *)

\* the step sizes of the host: half a time unit and one time unit
YearStepSizes == {One \div 2, One}

InitYear ==
    /\ model = "Values"
    /\ live = FALSE
    /\ comp = NoInstance(model)
    /\ call = NoCall
    /\ peer = NoPeer(model)

NextYear ==
    \/ fmi3Instantiate(CoSimulationArgs)
    \/ fmi3SetupExperiment({0})
    \/ fmi3EnterInitializationMode
    \/ fmi3ExitInitializationMode
    \/ fmi3DoStep({comp.time}, YearStepSizes)
    \/ fmi3GetInteger(NoNull({int_out_}, 1))
    \/ fmi3GetBoolean(NoNull({bool_out_}, 1))
    \/ fmi3GetString(NoNull({string_out_}, 1))
    \/ fmi3Terminate

SpecYear == InitYear /\ [][NextYear]_vars

\* the sub-steps of the call just made in which eventUpdate served a time event
Firings(c) ==
    IF c.op = "fmi3DoStep" THEN {j \in 1..Len(c.steps) : c.steps[j].isTimeEvent} ELSE {}

\* the call c, made in cmp, is an fmi3DoStep that passed the state check
Advanced(c, cmp) ==
    live /\ c.op = "fmi3DoStep" /\ cmp.state \in MASK_fmi3DoStep
         /\ c.args.communicationStepSize > 0

\* int_out counts the firings: an fmi3DoStep adds its firings to it
CountsFirings ==
    Advanced(call', comp) =>
        comp'.variables[int_out_][1]
            = comp.variables[int_out_][1] + Cardinality(Firings(call'))

\* fmi3Discard is returned only by the call of the firing that makes the count 12
NoDiscardBeforeLastMonth ==
    (Advanced(call', comp) /\ call'.status = fmi3Discard) =>
        /\ comp'.variables[int_out_][1] = NumMonths
        /\ Len(call'.steps) \in Firings(call')

\* the firing that makes the count 12 ends the call with fmi3Discard in
\* modelStepFailed
LastMonthDiscards ==
    (Advanced(call', comp) /\ Firings(call') # {}
        /\ comp'.variables[int_out_][1] = NumMonths) =>
        /\ comp'.eventInfo.terminateSimulation = fmi3True
        /\ call'.status = fmi3Discard
        /\ comp'.state = "modelStepFailed"

\* fmi3Terminate is accepted in modelStepFailed
TerminateAfterDiscard ==
    (live /\ call'.op = "fmi3Terminate" /\ comp.state = "modelStepFailed") =>
        /\ call'.status = fmi3OK
        /\ comp'.state = "modelTerminated"

\* C26: no fmi3DoStep of Values returns fmi3Discard before the 12th firing of
\* the time event; the call of the 12th firing requests termination and
\* returns fmi3Discard with the instance in modelStepFailed, and fmi3Terminate
\* is then accepted and leaves modelTerminated
C26_DiscardOnTwelfthFiring ==
    [][/\ CountsFirings
       /\ NoDiscardBeforeLastMonth
       /\ LastMonthDiscards
       /\ TerminateAfterDiscard]_vars

\* fmi3Terminate was accepted after the fmi3DoStep of the 12th firing
C26_Witness ==
    /\ live
    /\ call.op = "fmi3Terminate"
    /\ call.from = "modelStepFailed"
    /\ call.status = fmi3OK
    /\ comp.state = "modelTerminated"
    /\ comp.variables[int_out_][1] = NumMonths

\* a time event fires at t = 1 and then every 1.0 time unit
FiresEveryTimeUnit ==
    \A j \in 1..Len(StepsDone) :
        StepsDone[j].isTimeEvent
            <=> (StepsDone[j].time > 0 /\ StepsDone[j].time % One = 0)

\* a firing adds 1 to int_out and toggles bool_out
FiringAdvancesOutputs ==
    \A j \in Firings(call) :
        /\ call.steps[j].after[int_out_][1] = call.steps[j].before[int_out_][1] + 1
        /\ call.steps[j].after[bool_out_][1] = 1 - call.steps[j].before[bool_out_][1]

\* the k-th firing (k < 12) sets string_out to month[k]
FiringSetsMonth ==
    \A j \in Firings(call) :
        LET k == call.steps[j].after[int_out_][1]
        IN k < NumMonths => call.steps[j].after[string_out_][1] = month(k)

\* after k firings (0 < k < 12) fmi3GetString of string_out returns month[k]
GetStringReturnsMonth ==
    LET k == comp.variables[int_out_][1]
    IN (live /\ call.op = "fmi3GetString" /\ call.from \in MASK_fmi3GetString
          /\ k > 0 /\ k < NumMonths)
       => (call.status = fmi3OK /\ call.out = <<month(k)>>)

\* C25: Values stepped from start time 0 fires a time event at t = 1 and
\* then every 1.0 time unit; each firing adds 1 to int_out, toggles bool_out
\* and sets string_out to the next entry of month, so that after k firings
\* (k < 12) fmi3GetString of string_out returns month[k]
C25_MonthlyEvents ==
    /\ FiresEveryTimeUnit
    /\ FiringAdvancesOutputs
    /\ FiringSetsMonth
    /\ GetStringReturnsMonth

-----------------------------------------------------------------------------
(* Two components of BouncingBall in one process *)

\* the value references fmi3GetVariables and fmi3SetVariables know
vr_var_int == 10
vr_var_real == 11

\* fmi3SetVariables: the component is not looked at; an entry whose size is
\* not that of its variable ends the call with fmi3Error, after the entries
\* before it were stored
RECURSIVE SetVariablesLoop(_, _, _)
SetVariablesLoop(acc, a, i) ==
    IF i > Len(a) THEN acc
    ELSE IF a[i].vr = vr_var_int
    THEN IF a[i].size # "fmi3Integer" THEN [acc EXCEPT !.status = fmi3Error]
         ELSE CHOOSE r \in {SetVariablesLoop(x, a, i + 1) :
                            x \in {[acc EXCEPT !.comp.statics.var_int = a[i].value[1]]}} : TRUE
    ELSE IF a[i].vr = vr_var_real
    THEN IF a[i].size # "3 fmi3Real" THEN [acc EXCEPT !.status = fmi3Error]
         ELSE CHOOSE r \in {SetVariablesLoop(x, a, i + 1) :
                            x \in {[acc EXCEPT !.comp.statics.var_real = a[i].value]}} : TRUE
    ELSE SetVariablesLoop(acc, a, i + 1)

SetVariables(m, lv, cmp, a) ==
    IF m = "BouncingBall" THEN SetVariablesLoop(Res(cmp, fmi3OK), a, 1)
    ELSE Res(cmp, fmi3OK)

\* fmi3GetVariables: out holds what was written to variables[i]
RECURSIVE GetVariablesLoop(_, _, _)
GetVariablesLoop(acc, a, i) ==
    IF i > Len(a) THEN acc
    ELSE IF a[i].vr = vr_var_int
    THEN IF a[i].size # "fmi3Integer" THEN [acc EXCEPT !.status = fmi3Error]
         ELSE CHOOSE r \in {GetVariablesLoop(x, a, i + 1) :
                            x \in {[acc EXCEPT !.out = Append(@, <<acc.comp.statics.var_int>>)]}} : TRUE
    ELSE IF a[i].vr = vr_var_real
    THEN IF a[i].size # "3 fmi3Real" THEN [acc EXCEPT !.status = fmi3Error]
         ELSE CHOOSE r \in {GetVariablesLoop(x, a, i + 1) :
                            x \in {[acc EXCEPT !.out = Append(@, acc.comp.statics.var_real)]}} : TRUE
    ELSE GetVariablesLoop([acc EXCEPT !.out = Append(@, <<>>)], a, i + 1)

GetVariables(m, lv, cmp, a) ==
    IF m = "BouncingBall" THEN GetVariablesLoop(Res(cmp, fmi3OK), a, 1)
    ELSE Res(cmp, fmi3OK)

fmi3SetVariables(A) ==
    \E a \in A : Do("fmi3SetVariables", a, SetVariables(model, live, comp, a))

fmi3GetVariables(A) ==
    \E a \in A : Do("fmi3GetVariables", a, GetVariables(model, live, comp, a))

\* the file-scope variables as the last call on the component the host works
\* on left them
Own == IF call.op = "none" THEN peer.seen ELSE comp.statics

\* the host turns to its other component; the file-scope variables stay as
\* they are
Switch ==
    /\ comp' = [peer.comp EXCEPT !.statics = comp.statics]
    /\ live' = peer.live
    /\ peer' = [live |-> live, comp |-> [comp EXCEPT !.statics = Own],
                seen |-> peer.comp.statics]
    /\ call' = NoCall
    /\ UNCHANGED model

\* the entries the host passes to fmi3SetVariables and fmi3GetVariables: both
\* variables with their sizes, or var_real with the size of var_int
VariablesArgs ==
    {<<[vr |-> vr_var_int, size |-> "fmi3Integer", value |-> <<1>>],
       [vr |-> vr_var_real, size |-> "3 fmi3Real", value |-> <<Fine, Fine, Fine>>]>>,
     <<[vr |-> vr_var_real, size |-> "fmi3Integer", value |-> <<0>>]>>}

ModelExchangeArgs ==
    {[args |-> "ok", mem |-> "ok", fmuType |-> fmi3ModelExchange, loggingOn |-> fmi3False]}

InitPair ==
    /\ model = "BouncingBall"
    /\ live = FALSE
    /\ comp = NoInstance(model)
    /\ call = NoCall
    /\ peer = NoPeer(model)

NextPair ==
    \/ fmi3Instantiate(ModelExchangeArgs)
    \/ fmi3EnterInitializationMode
    \/ fmi3ExitInitializationMode
    \/ fmi3SetReal(NoNull({h_, v_}, 1), {-Fine})
    \/ fmi3NewDiscreteStates
    \/ fmi3SetVariables(VariablesArgs)
    \/ fmi3GetVariables(VariablesArgs)
    \/ Switch

SpecPair == InitPair /\ [][NextPair]_vars

\* what the call op(args) on the component cmp returns
Outcome(op, args, cmp) ==
    CASE op = "fmi3EnterInitializationMode" -> EnterInitializationMode(model, live, cmp)
      [] op = "fmi3ExitInitializationMode" -> ExitInitializationMode(model, live, cmp)
      [] op = "fmi3SetReal" -> SetReal(model, live, cmp, args)
      [] op = "fmi3NewDiscreteStates" -> NewDiscreteStates(model, live, cmp)
      [] op = "fmi3SetVariables" -> SetVariables(model, live, cmp, args)
      [] op = "fmi3GetVariables" -> GetVariables(model, live, cmp, args)

\* the calls Outcome knows
PairCalls ==
    {"fmi3EnterInitializationMode", "fmi3ExitInitializationMode", "fmi3SetReal",
     "fmi3NewDiscreteStates", "fmi3SetVariables", "fmi3GetVariables"}

\* the record of a component without the file-scope variables
OwnRecord(cmp) == [cmp EXCEPT !.statics = NoStatics]

\* C22: two live components of one model are isolated: what a call on one
\* of them returns, and the values it leaves in that component, are the
\* same whatever calls were made on the other component in between
C22_InstancesIsolated ==
    [][(live /\ peer.live /\ call'.op \in PairCalls) =>
          LET alone == Outcome(call'.op, call'.args, [comp EXCEPT !.statics = Own])
          IN /\ call'.status = alone.status
             /\ call'.out = alone.out
             /\ OwnRecord(comp') = OwnRecord(alone.comp)]_vars

-----------------------------------------------------------------------------
(* Claims on the phases of an instance, checked under Spec *)

\* the enumerators of ModelState that no handler assigns
UnassignedStates ==
    {"modelStartAndEnd", "modelStepInProgress", "modelStepCanceled", "modelFatal"}

\* C36: the state of an instance is always exactly one enumerator of
\* ModelState, and never modelStartAndEnd, modelStepInProgress,
\* modelStepCanceled or modelFatal, whatever calls the host has made
C36_OnePhaseNeverUnassigned ==
    live => /\ comp.state \in ModelState
            /\ comp.state \notin UnassignedStates

\* fmi3CancelStep, whose only legal state is modelStepInProgress, was called
\* on a co-simulation instance after a completed step
C36_Witness ==
    /\ live
    /\ call.op = "fmi3CancelStep"
    /\ call.from = "modelStepComplete"
    /\ comp.state = "modelError"

\* the states of model exchange and of co-simulation
ModelExchangeStates == {"modelEventMode", "modelContinuousTimeMode"}
CoSimulationStates == {"modelStepComplete", "modelStepFailed"}

\* the functions of model exchange the claim names
ModelExchangeCalls ==
    {"fmi3EnterEventMode", "fmi3NewDiscreteStates", "fmi3EnterContinuousTimeMode",
     "fmi3SetTime", "fmi3SetContinuousStates"}

\* C37: a co-simulation instance is never in modelEventMode or
\* modelContinuousTimeMode and a model-exchange instance is never in
\* modelStepComplete or modelStepFailed; so fmi3DoStep on a model-exchange
\* instance, and fmi3EnterEventMode, fmi3NewDiscreteStates,
\* fmi3EnterContinuousTimeMode, fmi3SetTime and fmi3SetContinuousStates on a
\* co-simulation instance, end in modelError
C37_ModeSeparation ==
    [][/\ (live' /\ comp'.type = fmi3CoSimulation) => comp'.state \notin ModelExchangeStates
       /\ (live' /\ comp'.type = fmi3ModelExchange) => comp'.state \notin CoSimulationStates
       /\ (live /\ comp.type = fmi3ModelExchange /\ call'.op = "fmi3DoStep")
             => (call'.status = fmi3Error /\ comp'.state = "modelError")
       /\ (live /\ comp.type = fmi3CoSimulation /\ call'.op \in ModelExchangeCalls)
             => (call'.status = fmi3Error /\ comp'.state = "modelError")]_vars

\* fmi3EnterEventMode was called on a co-simulation instance after
\* initialization
C37_Witness ==
    /\ live
    /\ comp.type = fmi3CoSimulation
    /\ call.op = "fmi3EnterEventMode"
    /\ call.from = "modelStepComplete"
    /\ call.status = fmi3Error
    /\ comp.state = "modelError"

\* the functions that run the stepper or the event-reaction hook
EventCalls == {"fmi3DoStep", "fmi3NewDiscreteStates"}

\* the call just made recomputed the values in modelInitializationMode and
\* changed nothing of the event information but the next event time
RecomputedInInitialization ==
    /\ comp.state = "modelInitializationMode"
    /\ call'.hooks > 0
    /\ comp'.eventInfo = [comp.eventInfo EXCEPT
                             !.nextEventTimeDefined = comp'.eventInfo.nextEventTimeDefined,
                             !.nextEventTime = comp'.eventInfo.nextEventTime]

\* C34 as stated: eventInfo is changed only by fmi3DoStep and
\* fmi3NewDiscreteStates; every other call on an instance leaves all its
\* fields as they were
C34_EventInfoChangedByEventCallsOnly ==
    [][(live /\ live' /\ comp'.eventInfo # comp.eventInfo)
          => call'.op \in EventCalls]_vars

\* C34: eventInfo is changed only by fmi3DoStep, by fmi3NewDiscreteStates,
\* and by a call that recomputes the values in modelInitializationMode, which
\* sets the next event time; every other call on an instance leaves all its
\* fields as they were
C34_EventInfoChangedByEventCallsOrInitialization ==
    [][(live /\ live' /\ comp'.eventInfo # comp.eventInfo)
          => (call'.op \in EventCalls \/ RecomputedInInitialization)]_vars

\* fmi3GetReal in modelInitializationMode scheduled the first time event
C34_Witness ==
    /\ live
    /\ call.op = "fmi3GetReal"
    /\ call.from = "modelInitializationMode"
    /\ call.hooks > 0
    /\ comp.eventInfo.nextEventTimeDefined = fmi3True
    /\ comp.eventInfo.terminateSimulation = fmi3False

-----------------------------------------------------------------------------
(* Claims on the event iteration of model exchange, checked under Spec *)

\* the call c, made in cmp, passed the state check of its function
Accepted(c, cmp) ==
    live /\ c.op \in DOMAIN LegalStates /\ cmp.state \in LegalStates[c.op]

\* the call c, made in cmp, brought the instance into modelEventMode
EnteredEventMode(c, cmp) ==
    /\ Accepted(c, cmp)
    /\ \/ c.op = "fmi3EnterEventMode"
       \/ c.op = "fmi3ExitInitializationMode" /\ cmp.type = fmi3ModelExchange

\* the last call brought the instance into modelEventMode
JustEnteredEventMode ==
    /\ call.status = fmi3OK
    /\ \/ call.op = "fmi3EnterEventMode" /\ call.from \in MASK_fmi3EnterEventMode
       \/ /\ call.op = "fmi3ExitInitializationMode"
          /\ call.from \in MASK_fmi3ExitInitializationMode
          /\ comp.type = fmi3ModelExchange

\* C33: the first fmi3NewDiscreteStates after the instance entered
\* modelEventMode (by fmi3ExitInitializationMode or fmi3EnterEventMode) calls
\* eventUpdate with isNewEventIteration true, every further one without an
\* fmi3EnterEventMode in between calls it with false; each call runs
\* eventUpdate once and returns the eventInfo of the instance as eventUpdate
\* left it
C33_FirstEventIteration ==
    [][/\ EnteredEventMode(call', comp) => comp'.isNewEventIteration = fmi3True
       /\ (Accepted(call', comp) /\ call'.op = "fmi3NewDiscreteStates") =>
            /\ Len(call'.steps) = 1
            /\ call'.steps[1].isNewEventIteration = comp.isNewEventIteration
            /\ JustEnteredEventMode => call'.steps[1].isNewEventIteration = fmi3True
            /\ (call.op = "fmi3NewDiscreteStates" /\ call.status = fmi3OK)
                  => call'.steps[1].isNewEventIteration = fmi3False
            /\ comp'.isNewEventIteration = fmi3False
            /\ call'.status = fmi3OK
            /\ call'.out = <<comp'.eventInfo>>
       /\ (live /\ live' /\ comp.state = "modelEventMode" /\ comp'.state = "modelEventMode"
             /\ call'.op \notin {"fmi3NewDiscreteStates", "fmi3EnterEventMode"})
            => comp'.isNewEventIteration = comp.isNewEventIteration]_vars

\* a second fmi3NewDiscreteStates in a row ran eventUpdate with
\* isNewEventIteration false
C33_Witness ==
    /\ live
    /\ call.op = "fmi3NewDiscreteStates"
    /\ call.from = "modelEventMode"
    /\ call.status = fmi3OK
    /\ Len(call.steps) = 1
    /\ call.steps[1].isNewEventIteration = fmi3False

-----------------------------------------------------------------------------
(* The two tests for a time event, applied to the same time and next event
   time; the times are counted in halves of DT_EVENT_DETECT *)

\* DT_EVENT_DETECT in halves of itself
Tolerance == 2

\* the largest time and next event time tried
MaxTicks == 6

\* the inputs: a time, and a next event time that is defined or not
DetectInputs ==
    [time : 0..MaxTicks, nextEventTimeDefined : {fmi3False, fmi3True},
     nextEventTime : 0..MaxTicks]

InitDetect ==
    /\ model = "Values"
    /\ live = FALSE
    /\ comp = NoInstance(model)
    /\ call \in {[NoCall EXCEPT !.args = a] : a \in DetectInputs}
    /\ peer = NoPeer(model)

\* both tests are applied to the inputs: out holds what fmi3DoStep and what
\* fmi3NewDiscreteStates make of them
Detect ==
    /\ call.op = "none"
    /\ call' = [call EXCEPT
                  !.op = "detect",
                  !.out = <<TimeEventFlagged(call.args.time, call.args.nextEventTimeDefined,
                                             call.args.nextEventTime, Tolerance),
                            TimeEventReached(call.args.time, call.args.nextEventTimeDefined,
                                             call.args.nextEventTime)>>]
    /\ UNCHANGED <<model, live, comp, peer>>

NextDetect == Detect

SpecDetect == InitDetect /\ [][NextDetect]_vars

\* C31 as stated: fmi3NewDiscreteStates passes a time event to eventUpdate
\* exactly when fmi3DoStep would flag one for the same time and next event
\* time, that is when the time has reached the next event time or is less than
\* the tolerance before it; without a next event time neither does
C31_SameTimeEventDetection ==
    call.op = "detect" =>
        /\ call.out[2] = call.out[1]
        /\ call.args.nextEventTimeDefined = fmi3False => (~call.out[1] /\ ~call.out[2])

\* C31: fmi3NewDiscreteStates passes a time event to eventUpdate exactly when
\* the time has reached or passed the next event time, without tolerance;
\* fmi3DoStep flags one in these cases and also when the time is less than the
\* tolerance before the next event time; without a next event time neither
\* does
C31_DetectionDiffersByTolerance ==
    call.op = "detect" =>
        LET a == call.args
            defined == a.nextEventTimeDefined = fmi3True
        IN /\ call.out[2] <=> (defined /\ a.time >= a.nextEventTime)
           /\ call.out[1] <=> (defined /\ a.time > a.nextEventTime - Tolerance)
           /\ call.out[2] => call.out[1]
           /\ ~defined => (~call.out[1] /\ ~call.out[2])

\* the time is half a tolerance before the next event time: fmi3DoStep flags
\* the time event, fmi3NewDiscreteStates does not
C31_Witness ==
    /\ call.op = "detect"
    /\ call.args.nextEventTimeDefined = fmi3True
    /\ call.args.time = call.args.nextEventTime - 1
    /\ call.out = <<TRUE, FALSE>>

-----------------------------------------------------------------------------
(* The Euler sub-steps of fmi3DoStep *)

\* the value references of the continuous states
StateVrs(m) == {vrStates(m)[i] : i \in 1..NUMBER_OF_STATES(m)}

\* the value references getReal is asked for as their derivatives
DerivativeVrs(m) == {vr + 1 : vr \in StateVrs(m)}

\* the variables at the start of sub-step j of the call that ends in the
\* next state: those of the instance for the first, those the sub-step
\* before left for the others
HeldBefore(j) == IF j = 1 THEN comp.variables ELSE call'.steps[j - 1].after

\* getReal(comp, vr)[0] on an instance that holds the given variables
DerivativeOn(m, variables, vr) ==
    LET g == getReal(m, [comp EXCEPT !.variables = variables], vr)
    IN g.comp.variables[g.slot][1]

\* sub-step j replaced each state by its value plus h times its derivative,
\* the derivative taken on the values held at the start of the sub-step
ExplicitEuler(j) ==
    \A vr \in StateVrs(model) :
        call'.steps[j].before[vr][1]
            = HeldBefore(j)[vr][1]
                + Mul(RoundDiv(call'.args.communicationStepSize, 10),
                      DerivativeOn(model, HeldBefore(j), vr + 1))

\* the integration of sub-step j left every variable outside V as it was
KeptOutside(V, j) ==
    \A vr \in DOMAIN HeldBefore(j) :
        vr \notin V => call'.steps[j].before[vr] = HeldBefore(j)[vr]

\* C32: every sub-step of fmi3DoStep replaces each continuous state x_k by
\* x_k + h * d_k with h a tenth of the communication step size and d_k the
\* derivative at value reference k + 1 taken on the values held before the
\* sub-step, and the integration modifies no variable that is not a
\* continuous state
C32_ExplicitEulerStatesOnly ==
    [][call'.op = "fmi3DoStep" =>
          \A j \in 1..Len(call'.steps) :
              ExplicitEuler(j) /\ KeptOutside(StateVrs(model), j)]_vars

\* C32 as the code has it: the same update of the states, and the
\* integration modifies no variable that is neither a continuous state nor
\* the derivative of one
C32_ExplicitEulerStatesAndDerivatives ==
    [][call'.op = "fmi3DoStep" =>
          \A j \in 1..Len(call'.steps) :
              /\ ExplicitEuler(j)
              /\ KeptOutside(StateVrs(model) \cup DerivativeVrs(model), j)]_vars

\* a step of the ball whose second sub-step moved both the height and the
\* velocity
C32_Witness ==
    /\ model = "BouncingBall"
    /\ call.op = "fmi3DoStep"
    /\ Len(call.steps) >= 2
    /\ call.steps[2].before[h_][1] # call.steps[1].after[h_][1]
    /\ call.steps[2].before[v_][1] # call.steps[1].after[v_][1]

-----------------------------------------------------------------------------
(* The continuous states in model exchange: Values and BouncingBall, with   *)
(* every count up to MaxCount, the counts 2^32 more, and NULL buffers       *)

StateCounts ==
    {<<size_t(w, k), isNull>> : w \in {0, 1}, k \in 0..MaxCount, isNull \in BOOLEAN}

IndicatorCounts == {size_t(w, k) : w \in {0, 1}, k \in 0..MaxCount}

InitStates ==
    /\ model \in {"Values", "BouncingBall"}
    /\ live = FALSE
    /\ comp = NoInstance(model)
    /\ call = NoCall
    /\ peer = NoPeer(model)

NextStates ==
    \/ fmi3Instantiate(ModelExchangeArgs)
    \/ fmi3EnterInitializationMode
    \/ fmi3ExitInitializationMode
    \/ fmi3EnterContinuousTimeMode
    \/ fmi3EnterEventMode
    \/ fmi3Reset
    \/ fmi3SetContinuousStates(StateCounts, {0, 2 * One})
    \/ fmi3GetContinuousStates(StateCounts)
    \/ fmi3GetDerivatives(StateCounts)
    \/ fmi3GetNominalsOfContinuousStates(StateCounts)
    \/ fmi3GetEventIndicators(IndicatorCounts)

SpecStates == InitStates /\ [][NextStates]_vars

\* the functions that take the number of states
StateCountCalls ==
    {"fmi3SetContinuousStates", "fmi3GetContinuousStates", "fmi3GetDerivatives",
     "fmi3GetNominalsOfContinuousStates"}

\* the call c was made with a count that is not the configured one
WrongCount(c) ==
    \/ c.op \in StateCountCalls /\ ~IsCount(c.args.nx, NUMBER_OF_STATES(model))
    \/ /\ c.op = "fmi3GetEventIndicators"
       /\ ~IsCount(c.args.ni, NUMBER_OF_EVENT_INDICATORS(model))

\* C35: fmi3SetContinuousStates, fmi3GetContinuousStates, fmi3GetDerivatives
\* or fmi3GetNominalsOfContinuousStates called in a legal state with a count
\* that is not NUMBER_OF_STATES, and fmi3GetEventIndicators with a count that
\* is not NUMBER_OF_EVENT_INDICATORS, return fmi3Error, write nothing to the
\* caller's buffer and leave the instance in modelError
C35_WrongCountRejected ==
    (call.op \in StateCountCalls \cup {"fmi3GetEventIndicators"}
        /\ WrongCount(call) /\ call.from \in LegalStates[call.op])
    => (call.status = fmi3Error /\ call.out = <<>> /\ comp.state = "modelError")

\* the last call was an accepted fmi3SetContinuousStates(x) in continuous-time
\* mode with NUMBER_OF_STATES values
StatesSet ==
    /\ call.op = "fmi3SetContinuousStates"
    /\ call.from = "modelContinuousTimeMode"
    /\ call.status = fmi3OK
    /\ IsCount(call.args.nx, NUMBER_OF_STATES(model))

\* C40: after an accepted fmi3SetContinuousStates(x) in continuous-time mode
\* with NUMBER_OF_STATES values the variables of the state value references
\* hold x, and fmi3GetContinuousStates with that count returns x
C40_SetGetContinuousStates ==
    [][StatesSet =>
          /\ \A i \in 1..NUMBER_OF_STATES(model) :
                 comp.variables[vrStates(model)[i]][1] = call.args.x[i]
          /\ (call'.op = "fmi3GetContinuousStates"
                  /\ IsCount(call'.args.nx, NUMBER_OF_STATES(model))
                  /\ ~call'.args.isNull)
             => call'.out = call.args.x]_vars

-----------------------------------------------------------------------------
(* fmi3Reset against fmi3Instantiate *)

\* the instance fmi3Instantiate returns for the type and the logging flag of
\* cmp
Fresh(cmp) ==
    Instantiate(model, [args |-> "ok", mem |-> "ok", fmuType |-> cmp.type,
                        loggingOn |-> cmp.loggingOn]).comp

\* the statuses and the lifecycle states of fmi3SetupExperiment,
\* fmi3EnterInitializationMode, fmi3ExitInitializationMode and fmi3DoStep
\* over one time unit, called in this order on cmp
Course(cmp) ==
    LET r1 == SetupExperiment(model, TRUE, cmp, 0)
        r2 == EnterInitializationMode(model, TRUE, r1.comp)
        r3 == ExitInitializationMode(model, TRUE, r2.comp)
        r4 == DoStep(model, TRUE, r3.comp, 0, One)
    IN <<r1.status, r1.comp.state, r2.status, r2.comp.state,
         r3.status, r3.comp.state, r4.status, r4.comp.state>>

\* C38: after fmi3Reset the event information, isNewEventIteration and
\* isDirtyValues are what they are right after fmi3Instantiate, and
\* fmi3SetupExperiment, fmi3EnterInitializationMode,
\* fmi3ExitInitializationMode and fmi3DoStep give the statuses and states
\* they give on a fresh instance (a step after the reset that follows a
\* discarded step is not discarded)
C38_ResetEqualsFresh ==
    (call.op = "fmi3Reset" /\ call.status = fmi3OK)
    => /\ comp.eventInfo = Fresh(comp).eventInfo
       /\ comp.isNewEventIteration = Fresh(comp).isNewEventIteration
       /\ comp.isDirtyValues = Fresh(comp).isDirtyValues
       /\ Course(comp) = Course(Fresh(comp))

-----------------------------------------------------------------------------
(* fmi3Instantiate and the host's allocator: for every model, every single  *)
(* call of allocateMemory that may return NULL                              *)

AllocationArgs(m) ==
    [args : {"ok"},
     mem : {"ok", "fail", "variables", "isPositive", "instanceName", "GUID"},
     slot : 0..(N_VARIABLES(m) - 1),
     fmuType : {fmi3ModelExchange, fmi3CoSimulation},
     loggingOn : {fmi3False, fmi3True}]

InitAlloc ==
    /\ model \in {"Values", "BouncingBall", "LinearTransform"}
    /\ live = FALSE
    /\ comp = NoInstance(model)
    /\ call = NoCall
    /\ peer = NoPeer(model)

NextAlloc ==
    \/ fmi3Instantiate(AllocationArgs(model))
    \/ fmi3FreeInstance

SpecAlloc == InitAlloc /\ [][NextAlloc]_vars

\* C39: fmi3Instantiate is all-or-nothing with respect to allocation: when a
\* call of allocateMemory fails it returns no instance, it never stores
\* through the failed allocation and it leaves no block obtained during the
\* call behind; when it returns an instance, every block of the variables,
\* isPositive, the name and the GUID are allocated
C39_InstantiateAllOrNothing ==
    call.op = "fmi3Instantiate" =>
        LET alloc == call.steps[1]
        IN /\ alloc.obtained # alloc.requested => (~live /\ alloc.leaked = <<>>)
           /\ ~call.oob
           /\ call.status = fmi3OK => alloc.held = AllocatedBlocks(model)

====
